---------------------------- MODULE Spec2Model ----------------------------
(***************************************************************************)
(* Model of one run of perform_backup_for_config (src/src/backup/core.py): *)
(* command construction, pre-flight table check, the execution and         *)
(* recovery loop around mysqldump, the artifact finisher and the status    *)
(* record written by src/src/utils/status.py; and of the worker pool of    *)
(* main (src/main.py) that runs process_config for every configuration.    *)
(*                                                                         *)
(* Text is modelled at the level of lexemes.  A table name is a sequence   *)
(* of lexemes (<<"db", ".", "Orders">>), a command argument is a sequence  *)
(* of lexemes whose first one is the option (<<"--ignore-table=", "db",    *)
(* ".", "orders">>), and an error stream is a sequence of segments: a      *)
(* "Table '<name>' doesn't exist" report, the "Unknown table 'LIBRARIES'"  *)
(* marker, other text, or a newline.                                       *)
(***************************************************************************)
EXTENDS Integers, Sequences, FiniteSets, TLC

VARIABLES
    cfg,             \* the configuration of the run (read-only input)
    pc,              \* position inside perform_backup_for_config
    pre_i,           \* index of the next database of the pre-flight loop
    cmd,             \* cmd, the dump command being built and mutated
    skipped_tables,  \* skipped_tables
    retry_errors,    \* retry_errors
    backup_success,  \* backup_success
    used_force,      \* used_force
    force_attempts,  \* force_attempts
    retry_count,     \* retry_count
    returncode,      \* process.returncode of the last dump process
    stderr,          \* stderr of the last dump process
    status,          \* the persisted status record of the configuration
    temp_file,       \* state of the raw output file of the run
    backup_file,     \* state of the compressed artifact of the run
    result,          \* return value of perform_backup_for_config
    attempts,        \* history: one entry per dump process of the run (the
                     \* command it ran, its exit status and error stream,
                     \* and the decision the loop took on them)
    exec_parity,     \* history: parity of the number of dump processes run
    ssh_client,      \* ssh_client, the tunnel handle of the run
    server_version,  \* server_version, as get_remote_mysql_version returned it
    probes,          \* history: the queries sent to the server (the version
                     \* probe and the pre-flight table checks)
    closes,          \* history: the number of calls of ssh_client.close()
    mail,            \* history: the notification the run asked email to send
    pool,            \* the worker pool of main and its tasks
    status_store,    \* the status files and the processes that read and
                     \* write them
    backup_dir,      \* the backup directory and the cleanup that runs on it
    header_file      \* a dump file, the header written in front of it and
                     \* what a reader found in it

\* the variables of one run of perform_backup_for_config
run_vars == << cfg, pc, pre_i, cmd, skipped_tables, retry_errors,
               backup_success, used_force, force_attempts, retry_count,
               returncode, stderr, status, temp_file, backup_file, result,
               attempts, exec_parity, ssh_client, server_version, probes,
               closes, mail >>

\* the variables of the models of the status files, of the cleanup and of
\* the header
aux_vars == << status_store, backup_dir, header_file >>

vars == << run_vars, pool, aux_vars >>

(***************************************************************************)
(* Bounds of the model and constants of the program.                       *)
(***************************************************************************)
\* how many times the environment answers with the LIBRARIES marker when
\* the marker decides the iteration
MaxCompat == 1
\* length at which retry_errors / retry_count stop growing in LiveSpec
MaxLog == 3
\* max_force_retry = 3
max_force_retry == 3
\* the largest number of configurations main loads
MaxConfigs == 5
\* how many times, over all tasks of the pool, a run decides to run the
\* dump again
MaxRetries == 2
\* how many dump processes a run starts in the model of the command alone
MaxRuns == 3

(***************************************************************************)
(* Lexemes, names and str.lower().                                         *)
(***************************************************************************)
\* the lexemes that are not made of \w characters only
NonWordLexemes == {"--routines", "--triggers", "--events", "--force",
                   "--ignore-table=", "-"}

\* str.lower() on one lexeme
LowerLexeme(t) ==
    CASE t = "DB"     -> "db"
      [] t = "Orders" -> "orders"
      [] t = "ORDERS" -> "orders"
      [] t = "Users"  -> "users"
      [] t = "X"      -> "x"
      [] OTHER        -> t

\* str.lower() on a name
Lower(name) == [i \in DOMAIN name |-> LowerLexeme(name[i])]

\* x in list
InList(x, list) == \E i \in DOMAIN list : list[i] = x

\* [\w\.]+ : a non-empty run of word characters and dots
IsWordName(name) ==
    /\ name # << >>
    /\ \A i \in DOMAIN name : name[i] \notin NonWordLexemes

\* f"{database_name}.{table}"
QualifiedName(db, table) == db \o <<".">> \o table

(***************************************************************************)
(* The error stream of a dump process.                                     *)
(***************************************************************************)
Seg(kind, name) == [kind |-> kind, name |-> name]
TEXT == Seg("text", << >>)
NL == Seg("nl", << >>)
LIBRARIES == Seg("lib", << >>)
TableSeg(name) == Seg("table", name)
UNKNOWN_ERROR == Seg("unknown", << >>)

IsTableMatch(seg) == seg.kind = "table" /\ IsWordName(seg.name)

\* re.findall(r"Table '([\w\.]+)' doesn't exist", stderr)
TableMatches(err) ==
    LET hits == SelectSeq(err, IsTableMatch)
    IN  [i \in DOMAIN hits |-> hits[i].name]

\* "Unknown table 'LIBRARIES'" in stderr
HasLibrariesMarker(err) == \E i \in DOMAIN err : err[i].kind = "lib"

RECURSIVE LStrip(_)
LStrip(s) == IF s # << >> /\ Head(s).kind = "nl" THEN LStrip(Tail(s)) ELSE s

RECURSIVE RStrip(_)
RStrip(s) ==
    IF s # << >> /\ s[Len(s)].kind = "nl"
    THEN RStrip(SubSeq(s, 1, Len(s) - 1))
    ELSE s

\* stderr.strip()
Strip(s) == RStrip(LStrip(s))

\* FinalError with the text stripped, as the retry log does
FinalError_Stripped(err) ==
    IF Strip(err) = << >> THEN <<UNKNOWN_ERROR>> ELSE Strip(err)

\* stderr or "未知错误"
FinalError(err) == IF err = << >> THEN <<UNKNOWN_ERROR>> ELSE err

(***************************************************************************)
(* The configuration and the environment's answers.                        *)
(***************************************************************************)
\* the configurations of the model: a server that takes the
\* routines/triggers/events flags, reached through a tunnel, with password
\* and an explicit database, and an older server, reached directly, with a
\* credentials file and all databases (server_version is the version the
\* server answers to SELECT VERSION(); defaults_file is the path of the
\* credentials file, empty when none is configured)
Configs ==
    { [ server_version |-> <<8, 0, 13>>, defaults_file |-> << >>,
        password |-> <<"secret">>,
        database_names |-> << <<"db">> >>, ssh_enabled |-> TRUE ],
      [ server_version |-> <<5, 7, 44>>, defaults_file |-> <<"my.cnf">>,
        password |-> <<"secret">>,
        database_names |-> << >>, ssh_enabled |-> FALSE ] }

\* what SHOW TABLES / SHOW CREATE TABLE can make check_missing_tables
\* return for one database: the tables listed and then rejected
PreflightResults ==
    { << >>,
      << <<"Orders">>, <<"orders">>, <<"x", "--events">> >> }

\* exit status of the dump process
ReturnCodes == {0, 2}

\* error streams of a failed dump process
StderrSet ==
    { << >>,
      << TEXT, NL >>,
      << TableSeg(<<"DB", ".", "Users">>), TableSeg(<<"db", ".", "orders">>), NL >>,
      << TableSeg(<<"db", ".", "users">>), LIBRARIES >> }

\* error streams of a dump process that exits zero
StderrOnSuccess ==
    { << >>,
      << TableSeg(<<"db", ".", "users">>), LIBRARIES >> }

Outcomes ==
    { o \in [rc : ReturnCodes, err : StderrSet] :
        o.rc = 0 => o.err \in StderrOnSuccess }

(***************************************************************************)
(* Command Builder (core.py lines 79-113).                                 *)
(***************************************************************************)
\* tuple comparison a < b
VersionLess(a, b) ==
    \/ a[1] < b[1]
    \/ a[1] = b[1] /\ a[2] < b[2]
    \/ a[1] = b[1] /\ a[2] = b[2] /\ a[3] < b[3]

\* c.startswith("--password")
StartsWithPassword(arg) == Head(arg) = "--password="

NotPassword(arg) == ~StartsWithPassword(arg)

\* cmd.insert(1, x)
InsertAt1(c, x) == <<Head(c), x>> \o Tail(c)

\* lines 79-87: the command before the options that depend on the server
BaseCmd(password) ==
    << <<"mysqldump">>, <<"--host=", "host">>, <<"--port=", "3306">>,
       <<"--user=", "user">>, <<"--password=">> \o password,
       <<"--single-transaction">>, <<"--no-tablespaces">> >>

\* WithColumnStatistics that also takes 8.0.0 for an old server
WithColumnStatistics_Inclusive(c, v) ==
    IF ~VersionLess(<<8, 0, 0>>, v)
    THEN Append(c, <<"--column-statistics=0">>)
    ELSE c

\* lines 89-92: if server_version < (8, 0, 0)
WithColumnStatistics(c, v) ==
    IF VersionLess(v, <<8, 0, 0>>)
    THEN Append(c, <<"--column-statistics=0">>)
    ELSE c

\* lines 94-97: if config.database.defaults_file: insert the credentials
\* file and drop every argument that starts with --password
WithCredentials(c, df) ==
    IF df # << >>
    THEN SelectSeq(InsertAt1(c, <<"--defaults-file=">> \o df), NotPassword)
    ELSE c

\* WithObjects that adds the options for every 8.0 server
WithObjects_AnyPatch(c, v) ==
    IF ~VersionLess(v, <<8, 0, 0>>)
    THEN c \o << <<"--routines">>, <<"--triggers">>, <<"--events">> >>
    ELSE c

\* lines 99-103: if server_version >= (8, 0, 13)
WithObjects(c, v) ==
    IF ~VersionLess(v, <<8, 0, 13>>)
    THEN c \o << <<"--routines">>, <<"--triggers">>, <<"--events">> >>
    ELSE c

WithDatabases(c, dbs) ==
    IF dbs # << >>
    THEN Append(c, <<"--databases">>) \o dbs
    ELSE Append(c, <<"--all-databases">>)

BuildCmd(c) ==
    Append(
        WithDatabases(
            WithObjects(
                WithCredentials(
                    WithColumnStatistics(BaseCmd(c.password),
                                         c.server_version),
                    c.defaults_file),
                c.server_version),
            c.database_names),
        <<"--result-file=", "temp_file">>)

(***************************************************************************)
(* Tunnel and version probe (core.py lines 47-67, utils/ssh.py,            *)
(* mysql_utils.get_remote_mysql_version).                                  *)
(***************************************************************************)
\* what check_ssh_connectivity and setup_ssh_tunnel can answer
TunnelOutcomes == {"unreachable", "no_handle", "opened"}

\* TunnelOpened that takes a missing handle for an open tunnel
TunnelOpened_NoHandleCheck(enabled, outcome) ==
    enabled /\ outcome # "unreachable"

\* lines 48-54: the run goes on with a tunnel
TunnelOpened(enabled, outcome) == enabled /\ outcome = "opened"

\* the triple get_remote_mysql_version returns when the query fails or its
\* answer has no version in it
ZERO_VERSION == <<0, 0, 0>>

\* get_remote_mysql_version: the parsed answer, or the zero triple
RemoteVersion(ok, answer) == IF ok THEN answer ELSE ZERO_VERSION

\* ClientAfterFinally that leaves the tunnel open
ClientAfterFinally_NoClose(client) == client

\* lines 371-373: if ssh_client: ssh_client.close()
ClientAfterFinally(client) == IF client = "open" THEN "closed" ELSE client

(***************************************************************************)
(* Status sink (utils/status.py).                                          *)
(***************************************************************************)
Msg(kind, type, text, skipped) ==
    [kind |-> kind, type |-> type, text |-> text, skipped |-> skipped]

\* the message '' written when a record is saved back from status_data
EmptyMsg == Msg("", "", << >>, << >>)

NoRecord ==
    [ present |-> FALSE, last_run |-> 0, success |-> FALSE,
      message |-> EmptyMsg, backup_file |-> "None",
      skipped_tables |-> << >>, retry_errors |-> << >>, running |-> FALSE,
      start_time |-> "None", end_time |-> "None", mail_sent_time |-> "None" ]

\* save_backup_status: the record replaces the stored one as a whole
SavedRecord(old, success, message, file, skipped, errors, running, start_time, end_time, mail_sent_time) ==
    [ present |-> TRUE, last_run |-> old.last_run + 1, success |-> success,
      message |-> message, backup_file |-> file,
      skipped_tables |-> skipped, retry_errors |-> errors,
      running |-> running, start_time |-> start_time,
      end_time |-> end_time, mail_sent_time |-> mail_sent_time ]

(***************************************************************************)
(* One iteration of the execution loop (core.py lines 139-218).            *)
(***************************************************************************)
CompatFlags == {"--routines", "--triggers", "--events"}

\* current_cmd = cmd + ["--force"] if used_force else cmd
CurrentCmd(c, uf) == IF uf THEN Append(c, <<"--force">>) ELSE c

\* f"--ignore-table={table_name_lower}"
IgnoreArg(name) == <<"--ignore-table=">> \o name

\* TableNotFound comparing the name as reported, not lowercased
TableNotFound_CaseSensitive(rc, err, skipped) ==
    /\ rc # 0
    /\ TableMatches(err) # << >>
    /\ ~InList(TableMatches(err)[1], skipped)

\* TableNotFound looking at every table the stream names
TableNotFound_AnyMatch(rc, err, skipped) ==
    /\ rc # 0
    /\ \E k \in DOMAIN TableMatches(err) :
          ~InList(Lower(TableMatches(err)[k]), skipped)

\* table_not_found after lines 152-170
TableNotFound(rc, err, skipped) ==
    /\ rc # 0
    /\ TableMatches(err) # << >>
    /\ ~InList(Lower(TableMatches(err)[1]), skipped)

\* skipped_tables after lines 152-170
SkippedAfter(rc, err, skipped) ==
    IF TableNotFound(rc, err, skipped)
    THEN Append(skipped, Lower(TableMatches(err)[1]))
    ELSE skipped

\* cmd after lines 152-170
CmdAfterTable(rc, err, skipped, c) ==
    IF TableNotFound(rc, err, skipped)
    THEN Append(c, IgnoreArg(Lower(TableMatches(err)[1])))
    ELSE c

\* CompatibilityError without the table_not_found test
CompatibilityError_WithTable(tnf, rc, err) ==
    rc # 0 /\ HasLibrariesMarker(err)

\* CompatibilityError without the exit status test
CompatibilityError_AnyExit(tnf, rc, err) ==
    ~tnf /\ HasLibrariesMarker(err)

\* compatibility_error after line 174
CompatibilityError(tnf, rc, err) ==
    ~tnf /\ rc # 0 /\ HasLibrariesMarker(err)

\* any(p in c for p in ["--routines", "--triggers", "--events"])
ContainsCompatFlag(arg) == \E i \in DOMAIN arg : arg[i] \in CompatFlags

KeepsArg(arg) == ~ContainsCompatFlag(arg)

\* cmd = [c for c in cmd if not any(p in c for p in [...])]
RemoveCompatFlags(c) == SelectSeq(c, KeepsArg)

\* cmd after line 178
CmdAfterCompat(ce, c) == IF ce THEN RemoveCompatFlags(c) ELSE c

\* the entry appended to retry_errors at lines 181-185
ErrorEntry(tnf, n, err) ==
    [ kind |-> IF tnf THEN "attempt" ELSE "error",
      n    |-> IF tnf THEN n ELSE 0,
      text |-> Strip(err) ]

\* the entry appended to retry_errors at line 126
PreflightEntry(table) ==
    [ kind |-> "preflight", n |-> 0, text |-> <<TableSeg(table)>> ]

\* Decision with the ladder bound tested as <=
Decision_LadderOffByOne(rc, tnf, ce, uf, fa) ==
    IF tnf THEN "TABLE_MISSING_RETRY"
    ELSE IF ce THEN "COMPATIBILITY_RETRY"
    ELSE IF rc # 0 /\ ~uf THEN "FORCE_RETRY"
    ELSE IF rc # 0 /\ fa > 0
         THEN IF fa <= max_force_retry THEN "FORCE_AGAIN" ELSE "FAILED"
    ELSE IF rc = 0 THEN "SUCCEEDED"
    ELSE "ATTEMPTING"

\* the branch taken at lines 188-218
Decision(rc, tnf, ce, uf, fa) ==
    IF tnf THEN "TABLE_MISSING_RETRY"
    ELSE IF ce THEN "COMPATIBILITY_RETRY"
    ELSE IF rc # 0 /\ ~uf THEN "FORCE_RETRY"
    ELSE IF rc # 0 /\ fa > 0
         THEN IF fa < max_force_retry THEN "FORCE_AGAIN" ELSE "FAILED"
    ELSE IF rc = 0 THEN "SUCCEEDED"
    ELSE "ATTEMPTING"

\* BackupSuccessAfter that reports success on every way out of the loop
BackupSuccessAfter_OnBreak(d) == d \in {"SUCCEEDED", "FAILED"}

\* backup_success after the iteration (lines 216-217)
BackupSuccessAfter(d) == d = "SUCCEEDED"

\* used_force after the iteration
UsedForceAfter(d, uf) == IF d = "FORCE_RETRY" THEN TRUE ELSE uf

\* ForceAttemptsAfter that counts the table-missing retry as a forced one
ForceAttemptsAfter_EveryRetry(d, fa) ==
    IF d \in {"FORCE_RETRY", "FORCE_AGAIN", "TABLE_MISSING_RETRY"}
    THEN fa + 1
    ELSE fa

\* force_attempts after the iteration
ForceAttemptsAfter(d, fa) ==
    IF d \in {"FORCE_RETRY", "FORCE_AGAIN"} THEN fa + 1 ELSE fa

(***************************************************************************)
(* Pre-flight table check (core.py lines 115-126).                         *)
(***************************************************************************)
\* check_missing_tables that returns the tables it has collected when the
\* check fails
CheckMissingTables_Partial(db, listed, tables) ==
    [i \in DOMAIN tables |-> QualifiedName(db, tables[i])]

\* check_missing_tables: the rejected tables as database.table; the empty
\* list when SHOW TABLES fails or any other error is raised (mysql_utils.py
\* lines 105-110)
CheckMissingTables(db, listed, tables) ==
    IF listed
    THEN [i \in DOMAIN tables |-> QualifiedName(db, tables[i])]
    ELSE << >>

\* the inner loop with the ignore flag left out of the command
RECURSIVE PreflightAdd_NoFlag(_, _)
PreflightAdd_NoFlag(missing, st) ==
    IF missing = << >>
    THEN st
    ELSE LET table == Head(missing)
             table_lower == Lower(table)
         IN  PreflightAdd_NoFlag(
                 Tail(missing),
                 IF ~InList(table_lower, st.skipped)
                 THEN [ skipped |-> Append(st.skipped, table_lower),
                        cmd     |-> st.cmd,
                        errors  |-> Append(st.errors, PreflightEntry(table)) ]
                 ELSE st)

\* the inner loop of lines 120-126 over missing_tables, on the triple
\* (skipped_tables, cmd, retry_errors)
RECURSIVE PreflightAdd(_, _)
PreflightAdd(missing, st) ==
    IF missing = << >>
    THEN st
    ELSE LET table == Head(missing)
             table_lower == Lower(table)
         IN  PreflightAdd(
                 Tail(missing),
                 IF ~InList(table_lower, st.skipped)
                 THEN [ skipped |-> Append(st.skipped, table_lower),
                        cmd     |-> Append(st.cmd, IgnoreArg(table_lower)),
                        errors  |-> Append(st.errors, PreflightEntry(table)) ]
                 ELSE st)

(***************************************************************************)
(* History kept by the model.                                              *)
(***************************************************************************)
\* number of attempts of the history on which the loop decided d
DecisionCount(h, d) == Cardinality({i \in DOMAIN h : h[i].decision = d})

\* Append, or (in the saturating specification) Append up to MaxLog entries
Record(seq, x, live) ==
    IF live /\ Len(seq) >= MaxLog THEN seq ELSE Append(seq, x)

\* n + 1, or (in the saturating specification) n + 1 up to MaxLog
Bump(n, live) == IF live /\ n >= MaxLog THEN n ELSE n + 1

(***************************************************************************)
(* The state machine of one run.                                           *)
(***************************************************************************)
\* the pool of a model that follows one run only
NoPool == [ n |-> 0, main |-> "none", task |-> << >>, outcome |-> << >>,
            in_flight |-> << >>, submitted |-> << >>, started |-> << >>,
            retries |-> 0 ]

\* the variables of a run at the call of perform_backup_for_config
RunInit ==
    /\ cfg \in Configs
    /\ pc = "start"
    /\ pre_i = 1
    /\ cmd = << >>
    /\ skipped_tables = << >>
    /\ retry_errors = << >>
    /\ backup_success = FALSE
    /\ used_force = FALSE
    /\ force_attempts = 0
    /\ retry_count = 0
    /\ returncode = 0
    /\ stderr = << >>
    /\ status = NoRecord
    /\ temp_file = "absent"
    /\ backup_file = "absent"
    /\ result = "unset"
    /\ attempts = << >>
    /\ exec_parity = 0
    /\ ssh_client = "None"
    /\ server_version = ZERO_VERSION
    /\ probes = << >>
    /\ closes = 0
    /\ mail = "none"

\* the status files of a model that follows no writer of them
NoStore == [ file |-> << >>, lock |-> << >>, pc |-> << >>, args |-> << >>,
             loaded |-> << >>, sent |-> << >>, email |-> "none" ]

\* the backup directory of a model that runs no cleanup
NoDir ==
    [ files |-> {}, runs |-> << >>,
      call |-> [config |-> << >>, mode |-> "none", perform |-> "none"] ]

\* the dump file of a model that writes no header
NoHeader == [ pc |-> "none", db_info |-> << >> ]

\* the models of the status files, of the cleanup and of the header at rest
AuxIdle ==
    /\ status_store = NoStore
    /\ backup_dir = NoDir
    /\ header_file = NoHeader

Init == RunInit /\ pool = NoPool /\ AuxIdle

\* lines 21-44: the start record, saved before the try statement: when the
\* status file cannot be written the error leaves the function
Start ==
    /\ pc = "start"
    /\ \E writable \in BOOLEAN :
         IF writable
         THEN /\ status' = SavedRecord(status, FALSE,
                                       Msg("running", "", << >>, << >>),
                                       "None", << >>, << >>, TRUE, "start",
                                       "None", "None")
              /\ result' = result
              /\ pc' = "tunnel"
         ELSE /\ status' = status
              /\ result' = "raised"
              /\ pc' = "done"
    /\ UNCHANGED << cfg, pre_i, cmd, skipped_tables, retry_errors,
                    backup_success, used_force, force_attempts, retry_count,
                    returncode, stderr, temp_file, backup_file, attempts,
                    exec_parity, ssh_client, server_version, probes, closes,
                    mail, pool, aux_vars >>

\* the record written by the except clause, lines 354-369
ExceptionRecord(old, what) ==
    SavedRecord(old, FALSE, Msg("exception", what, << >>, << >>), "None",
                skipped_tables, retry_errors, FALSE, "start", "end", "None")

\* lines 47-54: the tunnel, when the configuration asks for one
Tunnel ==
    /\ pc = "tunnel"
    /\ \E outcome \in TunnelOutcomes :
         /\ probes' = IF cfg.ssh_enabled
                      THEN Append(probes, [kind |-> "tunnel", ok |-> outcome = "opened"])
                      ELSE probes
         /\ IF cfg.ssh_enabled /\ ~TunnelOpened(cfg.ssh_enabled, outcome)
            THEN /\ status' = ExceptionRecord(status, "tunnel")
                 /\ result' = "None"
                 /\ pc' = "finally"
                 /\ ssh_client' = ssh_client
            ELSE /\ ssh_client' = IF cfg.ssh_enabled THEN "open" ELSE "None"
                 /\ pc' = "probe"
                 /\ UNCHANGED << status, result >>
    /\ UNCHANGED << cfg, pre_i, cmd, skipped_tables, retry_errors,
                    backup_success, used_force, force_attempts, retry_count,
                    returncode, stderr, temp_file, backup_file, attempts,
                    exec_parity, server_version, closes, mail, pool, aux_vars >>

\* lines 56-67: the version query; its failure is answered by the zero triple
Probe ==
    /\ pc = "probe"
    /\ \E ok \in BOOLEAN :
         /\ server_version' = RemoteVersion(ok, cfg.server_version)
         /\ probes' = Append(probes, [kind |-> "version", ok |-> ok])
    /\ pc' = "build"
    /\ UNCHANGED << cfg, pre_i, cmd, skipped_tables, retry_errors,
                    backup_success, used_force, force_attempts, retry_count,
                    returncode, stderr, status, temp_file, backup_file,
                    result, attempts, exec_parity, ssh_client, closes, mail,
                    pool, aux_vars >>

\* lines 69-113: the command is built from the configuration and the version
Build ==
    /\ pc = "build"
    /\ cmd' = BuildCmd([cfg EXCEPT !.server_version = server_version])
    /\ pre_i' = 1
    /\ pc' = IF cfg.database_names # << >> THEN "preflight" ELSE "loop"
    /\ UNCHANGED << cfg, skipped_tables, retry_errors, backup_success,
                    used_force, force_attempts, retry_count, returncode,
                    stderr, status, temp_file, backup_file, result, attempts,
                    exec_parity, ssh_client, server_version, probes, closes,
                    mail, pool, aux_vars >>

\* lines 116-126: one database of the pre-flight loop
Preflight ==
    /\ pc = "preflight"
    /\ \E listed \in BOOLEAN, tables \in PreflightResults :
         LET db == cfg.database_names[pre_i]
             missing_tables == CheckMissingTables(db, listed, tables)
             st == PreflightAdd(missing_tables,
                                [ skipped |-> skipped_tables, cmd |-> cmd,
                                  errors |-> retry_errors ])
         IN  /\ skipped_tables' = st.skipped
             /\ cmd' = st.cmd
             /\ retry_errors' = st.errors
             /\ probes' = Append(probes, [ kind |-> "tables", ok |-> listed,
                                           found |-> missing_tables ])
    /\ pre_i' = pre_i + 1
    /\ pc' = IF pre_i = Len(cfg.database_names) THEN "loop" ELSE "preflight"
    /\ UNCHANGED << cfg, backup_success, used_force, force_attempts,
                    retry_count, returncode, stderr, status, temp_file,
                    backup_file, result, attempts, exec_parity, ssh_client,
                    server_version, closes, mail, pool, aux_vars >>

\* RetryErrorsAfter that keeps only the latest entry
RetryErrorsAfter_Truncating(rc, errors, entry, live) ==
    IF rc # 0 THEN <<entry>> ELSE errors

\* retry_errors after lines 181-185
RetryErrorsAfter(rc, errors, entry, live) ==
    IF rc # 0 THEN Record(errors, entry, live) ELSE errors

\* lines 139-218: one pass through the while loop, from Popen to the
\* continue / break that ends the pass
LoopIteration(live) ==
    /\ pc = "loop"
    /\ \E o \in Outcomes :
         LET rc  == o.rc
             err == o.err
             tnf == TableNotFound(rc, err, skipped_tables)
             ce  == CompatibilityError(tnf, rc, err)
             d   == Decision(rc, tnf, ce, used_force, force_attempts)
         IN  /\ \/ live
                \/ d # "COMPATIBILITY_RETRY"
                \/ DecisionCount(attempts, "COMPATIBILITY_RETRY") < MaxCompat
             /\ returncode' = rc
             /\ stderr' = err
             /\ skipped_tables' = SkippedAfter(rc, err, skipped_tables)
             /\ cmd' = CmdAfterCompat(
                           ce, CmdAfterTable(rc, err, skipped_tables, cmd))
             /\ retry_count' = IF rc # 0 THEN Bump(retry_count, live)
                                         ELSE retry_count
             /\ retry_errors' =
                    RetryErrorsAfter(rc, retry_errors,
                                     ErrorEntry(tnf, retry_count + 1, err),
                                     live)
             /\ used_force' = UsedForceAfter(d, used_force)
             /\ force_attempts' = ForceAttemptsAfter(d, force_attempts)
             /\ backup_success' = BackupSuccessAfter(d)
             /\ attempts' = Record(attempts,
                                   [ cmd |-> CurrentCmd(cmd, used_force),
                                     rc |-> rc, err |-> err, decision |-> d ],
                                   live)
             /\ pc' = IF d \in {"SUCCEEDED", "FAILED"} THEN "final" ELSE "loop"
             /\ exec_parity' = 1 - exec_parity
    /\ UNCHANGED << cfg, pre_i, status, temp_file, backup_file, result,
                    ssh_client, server_version, probes, closes, mail, pool,
                    aux_vars >>

\* the steps of the body at which the model lets a call raise: the
\* directory of line 57 cannot be made, the dump program of line 143
\* cannot be started
RaisePoints == {"probe", "loop"}

\* lines 354-369: an exception raised inside the try statement
Raise ==
    /\ pc \in RaisePoints
    /\ status' = ExceptionRecord(status, "raise")
    /\ result' = "None"
    /\ pc' = "finally"
    /\ UNCHANGED << cfg, pre_i, cmd, skipped_tables, retry_errors,
                    backup_success, used_force, force_attempts, retry_count,
                    returncode, stderr, temp_file, backup_file, attempts,
                    exec_parity, ssh_client, server_version, probes, closes,
                    mail, pool, aux_vars >>

\* lines 230-234: the raw output after the failed branch; an error of
\* os.remove is swallowed
TempFileAfterFailure(exists, removed) ==
    IF exists /\ ~removed THEN "present" ELSE "absent"

\* lines 220-235: the loop ended without success
LoopFailed ==
    /\ pc = "final"
    /\ ~backup_success
    /\ status' = SavedRecord(status, FALSE,
                             Msg("failed", "", FinalError(stderr), << >>),
                             "None", skipped_tables, retry_errors, FALSE,
                             "start", "end", "None")
    /\ \E exists \in BOOLEAN, removed \in BOOLEAN :
         temp_file' = TempFileAfterFailure(exists, removed)
    /\ result' = "None"
    /\ pc' = "finally"
    /\ UNCHANGED << cfg, pre_i, cmd, skipped_tables, retry_errors,
                    backup_success, used_force, force_attempts, retry_count,
                    returncode, stderr, backup_file, attempts, exec_parity,
                    ssh_client, server_version, probes, closes, mail, pool,
                    aux_vars >>

\* the raw output after a header step whose error leaves the copy it was
\* writing in the place of the dump
TempFileAfterHeader_Partial(dumped, outcome) ==
    IF dumped = "absent" THEN "absent"
    ELSE IF outcome = "written" THEN "headed"
    ELSE IF outcome = "error" THEN "partial"
    ELSE dumped

\* lines 239-263: the raw output after the header step.  The header and
\* the dump are written to a file of their own, which replaces the dump
\* when it is complete ("headed"); when get_db_variables returns nothing
\* ("no_info") and when a statement of lines 243-254 raises ("error", as
\* the open of a dump that does not exist does) the dump stays as it was
TempFileAfterHeader(dumped, outcome) ==
    IF dumped = "absent" THEN "absent"
    ELSE IF outcome = "written" THEN "headed"
    ELSE dumped

\* lines 237-263: the server-settings header, never fatal
Header ==
    /\ pc = "final"
    /\ backup_success
    /\ \E exists \in BOOLEAN, outcome \in {"no_info", "written", "error"} :
         temp_file' = TempFileAfterHeader(
                          IF exists THEN "present" ELSE "absent", outcome)
    /\ pc' = "compress"
    /\ UNCHANGED << cfg, pre_i, cmd, skipped_tables, retry_errors,
                    backup_success, used_force, force_attempts, retry_count,
                    returncode, stderr, status, backup_file, result, attempts,
                    exec_parity, ssh_client, server_version, probes, closes,
                    mail, pool, aux_vars >>

\* lines 265-269: compression; an error here leaves through the except clause
Compress ==
    /\ pc = "compress"
    /\ \E outcome \in {"ok", "error"}, artifact \in {"nonempty", "empty", "absent"} :
         IF temp_file = "absent" \/ outcome = "error"
         THEN /\ status' = ExceptionRecord(status, "compress")
              /\ result' = "None"
              /\ pc' = "finally"
              /\ UNCHANGED << temp_file, backup_file >>
         ELSE /\ backup_file' = artifact
              /\ temp_file' = "absent"
              /\ pc' = "validate"
              /\ UNCHANGED << status, result >>
    /\ UNCHANGED << cfg, pre_i, cmd, skipped_tables, retry_errors,
                    backup_success, used_force, force_attempts, retry_count,
                    returncode, stderr, attempts, exec_parity, ssh_client,
                    server_version, probes, closes, mail, pool, aux_vars >>

\* SuccessType with the two outcomes exchanged
SuccessType_Swapped(skipped) == IF skipped # << >> THEN "full" ELSE "partial"

\* success_type and the message of lines 284-290
SuccessType(skipped) == IF skipped # << >> THEN "partial" ELSE "full"

SuccessMsg(skipped) == Msg("success", SuccessType(skipped), << >>, skipped)

\* ArtifactValid that only asks for the file to exist
ArtifactValid_ExistsOnly(artifact) == artifact # "absent"

\* line 272: the artifact exists and is not empty
ArtifactValid(artifact) == artifact \notin {"absent", "empty"}

\* lines 271-305: validation of the artifact and the terminal record
Validate ==
    /\ pc = "validate"
    /\ IF ~ArtifactValid(backup_file)
       THEN /\ status' = SavedRecord(status, FALSE,
                                     Msg("empty_artifact", "", << >>, << >>),
                                     "None", skipped_tables, retry_errors,
                                     FALSE, "start", "end", "None")
            /\ result' = "None"
            /\ pc' = "finally"
       ELSE /\ status' = SavedRecord(status, TRUE, SuccessMsg(skipped_tables),
                                     "backup_file", skipped_tables,
                                     retry_errors, FALSE, "start", "end",
                                     "None")
            /\ result' = result
            /\ pc' = "report"
    /\ UNCHANGED << cfg, pre_i, cmd, skipped_tables, retry_errors,
                    backup_success, used_force, force_attempts, retry_count,
                    returncode, stderr, temp_file, backup_file, attempts,
                    exec_parity, ssh_client, server_version, probes, closes,
                    mail, pool, aux_vars >>

\* the notification chosen for a loaded record: core.py lines 315-318
\* and send_success_email (email.py lines 117-120)
NotificationCategory(rec) ==
    IF ~rec.success THEN "error"
    ELSE IF rec.skipped_tables # << >> THEN "partial"
    ELSE "full"

\* lines 307-352: the record is loaded and, when a notification is due,
\* handed to email and saved back with the notification time; an error
\* raised on the way (the record cannot be loaded, report_time cannot be
\* parsed, the configuration has no email section for send_success_email to
\* read) leaves through the except clause
Report ==
    /\ pc = "report"
    /\ \E outcome \in {"ok", "error"},
          report_time \in {"unset", "due", "not_due"},
          email \in {"none", "disabled", "enabled"} :
         LET due == \/ report_time = "due"
                    \/ (report_time = "unset" /\ email = "enabled")
             fails == \/ outcome = "error"
                      \/ (report_time = "due" /\ email = "none")
         IN  IF fails
             THEN /\ status' = ExceptionRecord(status, "report")
                  /\ result' = "None"
                  /\ mail' = mail
             ELSE /\ status' =
                        IF due
                        THEN SavedRecord(status, status.success, EmptyMsg,
                                         status.backup_file,
                                         status.skipped_tables,
                                         status.retry_errors, FALSE,
                                         status.start_time, status.end_time,
                                         "now")
                        ELSE status
                  /\ mail' = IF due /\ email = "enabled"
                             THEN NotificationCategory(status)
                             ELSE mail
                  /\ result' = "backup_file"
    /\ pc' = "finally"
    /\ UNCHANGED << cfg, pre_i, cmd, skipped_tables, retry_errors,
                    backup_success, used_force, force_attempts, retry_count,
                    returncode, stderr, temp_file, backup_file, attempts,
                    exec_parity, ssh_client, server_version, probes, closes,
                    pool, aux_vars >>

\* lines 371-374: the finally clause, on every way out of the try statement
Finally ==
    /\ pc = "finally"
    /\ ssh_client' = ClientAfterFinally(ssh_client)
    /\ closes' = IF ClientAfterFinally(ssh_client) # ssh_client
                 THEN closes + 1
                 ELSE closes
    /\ pc' = "done"
    /\ UNCHANGED << cfg, pre_i, cmd, skipped_tables, retry_errors,
                    backup_success, used_force, force_attempts, retry_count,
                    returncode, stderr, status, temp_file, backup_file,
                    result, attempts, exec_parity, server_version, probes,
                    mail, pool, aux_vars >>

Next ==
    \/ Start
    \/ Tunnel
    \/ Probe
    \/ Build
    \/ Preflight
    \/ LoopIteration(FALSE)
    \/ Raise
    \/ LoopFailed
    \/ Header
    \/ Compress
    \/ Validate
    \/ Report
    \/ Finally

Spec == Init /\ [][Next]_vars

\* the same run with the informational counters and the histories
\* saturating at MaxLog, so that an unbounded run has finitely many states
NextLive ==
    \/ Start
    \/ Tunnel
    \/ Probe
    \/ Build
    \/ Preflight
    \/ LoopIteration(TRUE)
    \/ Raise
    \/ LoopFailed
    \/ Header
    \/ Compress
    \/ Validate
    \/ Report
    \/ Finally

LiveSpec == Init /\ [][NextLive]_vars /\ WF_vars(NextLive)

(***************************************************************************)
(* The worker pool of main (main.py lines 85-103) and process_config       *)
(* (core.py lines 417-438).  A task is the call of process_config for one  *)
(* configuration; of the run inside it the pool model keeps the dump       *)
(* processes it starts and waits for.                                      *)
(***************************************************************************)
\* the 4 of min(4, len(configs))
WORKER_LIMIT == 4

\* MaxWorkers with one worker for every configuration
MaxWorkers_Unbounded(n) == n

\* max_workers = min(4, len(configs))
MaxWorkers(n) == IF n < WORKER_LIMIT THEN n ELSE WORKER_LIMIT

\* the configurations of the pool
PoolConfigs(p) == 1 .. p.n

\* the tasks a worker is executing
Running(p) == {c \in PoolConfigs(p) : p.task[c] \in {"run", "dump", "finish"}}

\* the pool right after ThreadPoolExecutor(...) for n configurations
InitialPool(n) ==
    [ n |-> n, main |-> "submit",
      task |-> [c \in 1 .. n |-> "unsubmitted"],
      outcome |-> [c \in 1 .. n |-> "none"],
      in_flight |-> [c \in 1 .. n |-> 0],
      submitted |-> [c \in 1 .. n |-> 0],
      started |-> [c \in 1 .. n |-> 0],
      retries |-> 0 ]

\* ProcessConfigOutcome without the try statement of process_config
ProcessConfigOutcome_NoTry(perform, cleanup_ok) ==
    IF perform = "raised" \/ (perform = "file" /\ ~cleanup_ok)
    THEN "raised"
    ELSE perform

\* process_config: what the future of the task holds, given what
\* perform_backup_for_config did and whether the cleanup after it raised
ProcessConfigOutcome(perform, cleanup_ok) ==
    IF perform = "raised" \/ (perform = "file" /\ ~cleanup_ok)
    THEN "None"
    ELSE perform

PoolInit ==
    /\ RunInit
    /\ cfg.ssh_enabled
    /\ pool \in {InitialPool(n) : n \in 1 .. MaxConfigs}
    /\ AuxIdle

\* lines 87-88: executor.submit(process_config, cfg, args), in the order of
\* configs
Submit ==
    /\ pool.main = "submit"
    /\ LET c == CHOOSE k \in PoolConfigs(pool) :
                   /\ pool.task[k] = "unsubmitted"
                   /\ \A j \in 1 .. (k - 1) : pool.task[j] # "unsubmitted"
       IN  pool' = [pool EXCEPT !.task[c] = "queued",
                                !.submitted[c] = @ + 1,
                                !.main = IF c = pool.n THEN "wait" ELSE "submit"]
    /\ UNCHANGED << run_vars, aux_vars >>

\* a worker of the executor takes a submitted task; the executor has at
\* most max_workers workers
TaskStart(c) ==
    /\ pool.task[c] = "queued"
    /\ Cardinality(Running(pool)) < MaxWorkers(pool.n)
    /\ pool' = [pool EXCEPT !.task[c] = "run", !.started[c] = @ + 1]
    /\ UNCHANGED << run_vars, aux_vars >>

\* core.py lines 143-148: subprocess.Popen starts a dump process
Popen(c) ==
    /\ pool.task[c] = "run"
    /\ pool' = [pool EXCEPT !.task[c] = "dump", !.in_flight[c] = @ + 1]
    /\ UNCHANGED << run_vars, aux_vars >>

\* core.py lines 149-218: communicate() returns when the process has
\* exited, and the loop decides to run the dump again or to leave
Communicate(c) ==
    /\ pool.task[c] = "dump"
    /\ \E again \in BOOLEAN :
         /\ again => pool.retries < MaxRetries
         /\ pool' = [pool EXCEPT
                       !.task[c] = IF again THEN "run" ELSE "finish",
                       !.in_flight[c] = @ - 1,
                       !.retries = IF again THEN @ + 1 ELSE @]
    /\ UNCHANGED << run_vars, aux_vars >>

\* core.py lines 417-438: the run ends (it returns the artifact or None,
\* or raises), the cleanup follows an artifact, process_config returns
TaskEnd(c) ==
    /\ pool.task[c] \in {"run", "finish"}
    /\ \E perform \in {"file", "None", "raised"}, cleanup_ok \in BOOLEAN :
         /\ (pool.task[c] = "run") => perform # "file"
         /\ pool' = [pool EXCEPT
                       !.task[c] = "returned",
                       !.outcome[c] = ProcessConfigOutcome(perform, cleanup_ok)]
    /\ UNCHANGED << run_vars, aux_vars >>

\* main.py lines 90-103: every future has completed and was read, the with
\* statement ends
MainDone ==
    /\ pool.main = "wait"
    /\ \A c \in PoolConfigs(pool) : pool.task[c] = "returned"
    /\ pool' = [pool EXCEPT !.main = "done"]
    /\ UNCHANGED << run_vars, aux_vars >>

PoolNext ==
    \/ Submit
    \/ \E c \in PoolConfigs(pool) : TaskStart(c)
    \/ \E c \in PoolConfigs(pool) : Popen(c)
    \/ \E c \in PoolConfigs(pool) : Communicate(c)
    \/ \E c \in PoolConfigs(pool) : TaskEnd(c)
    \/ MainDone

\* the pool with its scheduling: a worker that can take a step takes it
PoolSpec == PoolInit /\ [][PoolNext]_vars /\ WF_vars(PoolNext)

(***************************************************************************)
(* The status files (utils/status.py) and the code that reads and writes   *)
(* them: the run of a configuration (core.py lines 21-44, 291-369) and the *)
(* status check of a configuration (core.py lines 377-414).  The backup    *)
(* and the status check are started as two scheduled tasks, so they are    *)
(* two processes; status_lock is an object of one process.                 *)
(***************************************************************************)
\* the configurations whose status files the model follows
StoreNames == {"app", "crm"}

\* "run" and "other" are perform_backup_for_config in two workers of the
\* backup process, "check" is check_backup_status_for_config in the
\* process of the status check
Writers == {"run", "other", "check"}

\* config.config_name of a writer
WriterConfig(w) == IF w = "other" THEN "crm" ELSE "app"

\* the process a writer runs in
WriterProcess(w) == IF w = "check" THEN "check" ELSE "backup"

\* the positions at which a writer calls save_backup_status
SavePoints == {"save_start", "save_terminal", "save_back", "save_except"}

\* the arguments of a call of save_backup_status
SaveArgs(success, message, file, skipped, errors, running, start_time, end_time, mail_sent_time) ==
    [ success |-> success, message |-> message, backup_file |-> file,
      skipped_tables |-> skipped, retry_errors |-> errors,
      running |-> running, start_time |-> start_time,
      end_time |-> end_time, mail_sent_time |-> mail_sent_time ]

\* core.py lines 34-44: the arguments of the start record
StartArgs ==
    SaveArgs(FALSE, Msg("running", "", << >>, << >>), "None", << >>, << >>,
             TRUE, "start", "None", "None")

\* core.py lines 291-305 and 222-229: the arguments of the terminal record
TerminalArgs(success) ==
    IF success
    THEN SaveArgs(TRUE, SuccessMsg(<< >>), "backup_file", << >>, << >>,
                  FALSE, "start", "end", "None")
    ELSE SaveArgs(FALSE, Msg("failed", "", UNKNOWN_ERROR, << >>), "None",
                  << >>, << >>, FALSE, "start", "end", "None")

\* core.py lines 320-331, 339-350 and 403-414: the loaded record saved
\* back; status_data.get('msg', '') finds no key 'msg'
SaveBackArgs(status_data) ==
    SaveArgs(status_data.success, EmptyMsg, status_data.backup_file,
             status_data.skipped_tables, status_data.retry_errors, FALSE,
             status_data.start_time, status_data.end_time, "now")

\* core.py lines 358-369: the arguments of the record of the except clause
ExceptArgs ==
    SaveArgs(FALSE, Msg("exception", "email", << >>, << >>), "None", << >>,
             << >>, FALSE, "start", "end", "None")

\* save_backup_status that keeps the stored value of an optional field
\* which the call leaves out
WrittenRecord_Merging(old, a) ==
    [ SavedRecord(old, a.success, a.message, a.backup_file,
                  a.skipped_tables, a.retry_errors, a.running, a.start_time,
                  a.end_time, a.mail_sent_time)
      EXCEPT !.mail_sent_time = IF a.mail_sent_time = "None"
                                THEN old.mail_sent_time
                                ELSE a.mail_sent_time,
             !.end_time = IF a.end_time = "None" THEN old.end_time
                          ELSE a.end_time ]

\* status.py lines 27-50: the record save_backup_status writes over the
\* stored one
WrittenRecord(old, a) ==
    SavedRecord(old, a.success, a.message, a.backup_file, a.skipped_tables,
                a.retry_errors, a.running, a.start_time, a.end_time,
                a.mail_sent_time)

\* the record an earlier run left, with the time of its notification
PreviousRecord(mail_sent_time) ==
    SavedRecord(NoRecord, TRUE, SuccessMsg(<< >>), "previous_file", << >>,
                << >>, FALSE, "previous_start", "previous_end",
                mail_sent_time)

\* the status files when the backup process and the status check start
StoreInit ==
    /\ RunInit
    /\ cfg.ssh_enabled
    /\ pool = NoPool
    /\ backup_dir = NoDir
    /\ header_file = NoHeader
    /\ \E previous \in {NoRecord, PreviousRecord("None"),
                        PreviousRecord("previous_mail")},
          email \in {"none", "disabled", "enabled"} :
         status_store =
             [ file   |-> [n \in StoreNames |->
                              IF n = "app" THEN previous ELSE NoRecord],
               lock   |-> [p \in {"backup", "check"} |-> "free"],
               pc     |-> [w \in Writers |->
                              IF w = "check" THEN "load" ELSE "save_start"],
               args   |-> [w \in Writers |-> StartArgs],
               loaded |-> [w \in Writers |-> NoRecord],
               sent   |-> [w \in Writers |-> "none"],
               email  |-> email ]

\* status.py line 27: with status_lock, entered by one thread of a process
\* at a time
Acquire(w) ==
    /\ status_store.pc[w] \in SavePoints
    /\ status_store.lock[WriterProcess(w)] = "free"
    /\ status_store' =
           [status_store EXCEPT !.lock[WriterProcess(w)] = w]
    /\ UNCHANGED << run_vars, pool, backup_dir, header_file >>

\* where a writer goes on after a call of save_backup_status
AfterSave(w, at, a) ==
    IF at = "save_start" THEN "body"
    ELSE IF at = "save_terminal" /\ w = "run" /\ a.success THEN "load"
    ELSE "end"

\* status.py lines 28-50: the record is built from the arguments and
\* written over the file of the configuration; the lock is released
Write(w) ==
    /\ status_store.lock[WriterProcess(w)] = w
    /\ LET n == WriterConfig(w)
           a == status_store.args[w]
       IN  status_store' =
               [status_store EXCEPT
                  !.file[n] = WrittenRecord(status_store.file[n], a),
                  !.lock[WriterProcess(w)] = "free",
                  !.pc[w] = AfterSave(w, status_store.pc[w], a)]
    /\ UNCHANGED << run_vars, pool, backup_dir, header_file >>

\* core.py lines 46-305: the body of a run ends in success or in failure
Body(w) ==
    /\ status_store.pc[w] = "body"
    /\ \E success \in BOOLEAN :
         status_store' = [status_store EXCEPT
                            !.pc[w] = "save_terminal",
                            !.args[w] = TerminalArgs(success)]
    /\ UNCHANGED << run_vars, pool, backup_dir, header_file >>

\* the notification email.py is asked for; the senders read
\* config.email.enabled before their try statement (email.py lines 18,
\* 115, 161, 211, 244), and config.email is None when the project has no
\* enabled email section (loader.py lines 187-191); an error of the mail
\* server is caught and logged inside the sender (email.py lines 103-110,
\* 155, 205, 238, 266)
Sent(email, delivered, category) ==
    IF email = "none" THEN "raised"
    ELSE IF email = "disabled" THEN "disabled"
    ELSE IF ~delivered THEN "failed"
    ELSE category

\* status.py lines 52-77 and core.py lines 310, 380-393: the record is
\* loaded, without the lock; the status check answers a missing record and
\* a running record with a notification and returns
Load(w) ==
    /\ status_store.pc[w] = "load"
    /\ \E delivered \in BOOLEAN :
         LET status_data == status_store.file[WriterConfig(w)]
             returns == w = "check"
                        /\ (~status_data.present \/ status_data.running)
         IN  status_store' =
                 [status_store EXCEPT
                    !.loaded[w] = status_data,
                    !.sent[w] = IF returns
                                THEN Sent(status_store.email, delivered,
                                          IF status_data.present
                                          THEN "running" ELSE "alert")
                                ELSE @,
                    !.pc[w] = IF returns THEN "end" ELSE "notify"]
    /\ UNCHANGED << run_vars, pool, backup_dir, header_file >>

\* core.py lines 311-350: the notification of the run, and the except
\* clause when the sender raises
NotifyRun(w) ==
    /\ w = "run"
    /\ status_store.pc[w] = "notify"
    /\ \E report_time \in {"unset", "due", "not_due"}, delivered \in BOOLEAN :
         LET email == status_store.email
             status_data == status_store.loaded[w]
             due == \/ report_time = "due"
                    \/ (report_time = "unset" /\ email = "enabled")
         IN  status_store' =
                 IF ~due
                 THEN [status_store EXCEPT !.pc[w] = "end"]
                 ELSE IF email = "none"
                 THEN [status_store EXCEPT
                         !.sent[w] = "raised",
                         !.args[w] = ExceptArgs,
                         !.pc[w] = "save_except"]
                 ELSE [status_store EXCEPT
                         !.sent[w] =
                             Sent(email, delivered,
                                  NotificationCategory(status_data)),
                         !.args[w] = SaveBackArgs(status_data),
                         !.pc[w] = "save_back"]
    /\ UNCHANGED << run_vars, pool, backup_dir, header_file >>

\* core.py lines 395-414: the notification of the status check; an error
\* of the sender leaves check_backup_status_for_config
NotifyCheck(w) ==
    /\ w = "check"
    /\ status_store.pc[w] = "notify"
    /\ \E delivered \in BOOLEAN :
         LET email == status_store.email
             status_data == status_store.loaded[w]
         IN  status_store' =
                 IF email = "none"
                 THEN [status_store EXCEPT !.sent[w] = "raised",
                                           !.pc[w] = "end"]
                 ELSE [status_store EXCEPT
                         !.sent[w] =
                             Sent(email, delivered,
                                  NotificationCategory(status_data)),
                         !.args[w] = SaveBackArgs(status_data),
                         !.pc[w] = "save_back"]
    /\ UNCHANGED << run_vars, pool, backup_dir, header_file >>

StoreNext ==
    \/ \E w \in Writers : Acquire(w)
    \/ \E w \in Writers : Write(w)
    \/ \E w \in Writers : Body(w)
    \/ \E w \in Writers : Load(w)
    \/ \E w \in Writers : NotifyRun(w)
    \/ \E w \in Writers : NotifyCheck(w)

StoreSpec == StoreInit /\ [][StoreNext]_vars

(***************************************************************************)
(* The retention cleanup (backup/cleanup.py) on the files of a backup      *)
(* directory.  A file name is the sequence of its lexemes; times are whole *)
(* days.                                                                   *)
(***************************************************************************)
\* how many cleanup runs the model follows on a directory
MaxCleanups == 2

\* the configuration names whose artifacts share the directory; the second
\* name begins with the first
CleanupNames == { <<"app">>, <<"app", "2">>, <<"crm">> }

\* core.py line 62: f"backup_{config_name}_{db_name}_{timestamp}.sql"
RawName(config_name, db_name, timestamp) ==
    <<"backup_">> \o config_name \o <<"_", db_name, "_", timestamp, ".sql">>

\* core.py line 63: f"backup_{config_name}_{db_name}_{timestamp}.sql.gz"
ArtifactName(config_name, db_name, timestamp) ==
    <<"backup_">> \o config_name
                  \o <<"_", db_name, "_", timestamp, ".sql.gz">>

\* a file of the directory: its name, its creation time, and the
\* configuration whose run wrote it
File(name, ctime, owner) == [name |-> name, ctime |-> ctime, owner |-> owner]

\* datetime.now() and config.backup.days_to_keep of the cleanup runs
CleanupClock == [now |-> 10, days_to_keep |-> 7]

\* the files the directories of the model are made of: for "app" an
\* artifact older than the retention date, one created at the retention
\* date, a recent one and an old raw dump; old artifacts of the two other
\* configurations
OldApp == File(ArtifactName(<<"app">>, "db", "t1"), 2, <<"app">>)
EdgeApp == File(ArtifactName(<<"app">>, "db", "t2"), 3, <<"app">>)
NewApp == File(ArtifactName(<<"app">>, "db", "t3"), 9, <<"app">>)
OldRawApp == File(RawName(<<"app">>, "db", "t1"), 2, <<"app">>)
OldApp2 == File(ArtifactName(<<"app", "2">>, "db", "t1"), 2, <<"app", "2">>)
OldCrm == File(ArtifactName(<<"crm">>, "db", "t1"), 2, <<"crm">>)

Directories ==
    { {OldApp, EdgeApp, NewApp, OldRawApp, OldApp2, OldCrm},
      {EdgeApp, NewApp, OldRawApp},
      {OldApp, OldCrm},
      {} }

\* str.startswith
StartsWith(s, prefix) ==
    /\ Len(prefix) <= Len(s)
    /\ SubSeq(s, 1, Len(prefix)) = prefix

\* str.endswith
EndsWith(s, suffix) ==
    /\ Len(suffix) <= Len(s)
    /\ SubSeq(s, Len(s) - Len(suffix) + 1, Len(s)) = suffix

\* cleanup.py line 19: the files the loop does not skip
Matches(filename, config_name) ==
    /\ StartsWith(filename, <<"backup_">> \o config_name)
    /\ EndsWith(filename, <<".sql.gz">>)

\* Expired that takes a file created at the retention date too
Expired_Inclusive(f, clock) == f.ctime <= clock.now - clock.days_to_keep

\* cleanup.py lines 13-14, 23-27: file_time < retention_date
Expired(f, clock) == f.ctime < clock.now - clock.days_to_keep

\* the files a cleanup run of the configuration tries to remove
Targets(files, config_name) ==
    {f \in files : Matches(f.name, config_name) /\ Expired(f, CleanupClock)}

\* cleanup.py lines 30, 36, 40: deleted_files holds the removed files; the
\* except clause of the function returns an empty list
Returned(removed, failed, cut) == IF cut THEN {} ELSE removed

\* the directory before the first cleanup
CleanupInit ==
    /\ RunInit
    /\ cfg.ssh_enabled
    /\ pool = NoPool
    /\ status_store = NoStore
    /\ header_file = NoHeader
    /\ \E files \in Directories : backup_dir = [NoDir EXCEPT !.files = files]

\* core.py lines 420-431: args.backup, args.check, or neither
Modes == {"backup", "check", "single"}

\* what perform_backup_for_config gave process_config: the path of the
\* artifact, None, or an error
PerformResults == {"file", "None", "raised"}

\* CleanupInvoked that cleans after every run, whatever it returned
CleanupInvoked_AfterEveryRun(mode, perform) == mode \in {"backup", "single"}

\* core.py lines 422-424 and 431-433: if backup_file:
\* cleanup.clean_old_backups_for_config(config), in the two branches that
\* run a backup
CleanupInvoked(mode, perform) ==
    mode \in {"backup", "single"} /\ perform = "file"

\* cleanup.py lines 9-40: one call of clean_old_backups_for_config.  The
\* loop reaches a subset of its targets when os.listdir or os.path.getctime
\* raises on the way (cut); os.remove fails on some of the files reached
CleanOldBackups(config_name, mode, perform) ==
    /\ Len(backup_dir.runs) < MaxCleanups
    /\ LET targets == Targets(backup_dir.files, config_name)
       IN  \E cut \in BOOLEAN, reached \in SUBSET targets :
             /\ ~cut => reached = targets
             /\ \E failed \in SUBSET reached :
                  LET removed == reached \ failed
                  IN  backup_dir' =
                          [ call  |-> [ config |-> config_name,
                                        mode |-> mode, perform |-> perform ],
                            files |-> backup_dir.files \ removed,
                            runs  |-> Append(backup_dir.runs,
                                        [ config   |-> config_name,
                                          before   |-> backup_dir.files,
                                          removed  |-> removed,
                                          failed   |-> failed,
                                          cut      |-> cut,
                                          returned |->
                                            Returned(removed, failed, cut) ]) ]
    /\ UNCHANGED << run_vars, pool, status_store, header_file >>

\* core.py lines 417-438: process_config of one configuration, in the
\* mode of the invocation; the status check does not call
\* perform_backup_for_config
ProcessConfig(config_name) ==
    \E mode \in Modes, performed \in PerformResults :
        LET perform == IF mode = "check" THEN "not_called" ELSE performed
        IN  IF CleanupInvoked(mode, perform)
            THEN CleanOldBackups(config_name, mode, perform)
            ELSE /\ backup_dir' =
                        [backup_dir EXCEPT
                           !.call = [ config |-> config_name,
                                      mode |-> mode, perform |-> perform ]]
                 /\ UNCHANGED << run_vars, pool, status_store, header_file >>

CleanupNext == \E config_name \in CleanupNames : ProcessConfig(config_name)

CleanupSpec == CleanupInit /\ [][CleanupNext]_vars

(***************************************************************************)
(* The header of server settings (backup/db_info.py) in front of a dump:   *)
(* write_db_info_header as the finisher calls it (core.py lines 239-254),  *)
(* the compression (core.py lines 265-268) and read_db_info_header.  A     *)
(* text is the sequence of its lexemes, each of a known length.            *)
(***************************************************************************)
\* f.read(4096)
READ_SIZE == 4096

\* the number of characters of a lexeme
LexLen(t) ==
    CASE t = "START" -> 28     \* /* START DATABASE PARAMETERS
      [] t = "END" -> 26       \* END DATABASE PARAMETERS */
      [] t = "LONG" -> 4096    \* a run of 4096 letters
      [] t = "INDENT" -> 2
      [] t = "COLON" -> 2      \* a colon and a space
      [] t = "CRLF" -> 2
      [] t = "version" -> 7
      [] t = "sql_mode" -> 8
      [] t = "8.0" -> 3
      [] t = "SQL" -> 40       \* the first statements of the dump
      [] OTHER -> 1            \* NL, LF, CR, {, }, QUOTE, BACKSLASH, COMMA, n

\* json.dumps of a string without its quotes: the quote, the backslash and
\* the line feed are escaped
RECURSIVE Escape(_)
Escape(s) ==
    IF s = << >> THEN << >>
    ELSE (CASE Head(s) = "QUOTE" -> <<"BACKSLASH", "QUOTE">>
            [] Head(s) = "BACKSLASH" -> <<"BACKSLASH", "BACKSLASH">>
            [] Head(s) = "NL" -> <<"BACKSLASH", "n">>
            [] OTHER -> <<Head(s)>>) \o Escape(Tail(s))

\* one item of json.dumps(db_info, indent=2)
DumpsItem(item) ==
    <<"INDENT", "QUOTE">> \o Escape(item.key) \o <<"QUOTE", "COLON", "QUOTE">>
                          \o Escape(item.value) \o <<"QUOTE">>

RECURSIVE DumpsItems(_)
DumpsItems(items) ==
    IF Len(items) = 1 THEN DumpsItem(items[1])
    ELSE DumpsItem(Head(items)) \o <<"COMMA", "NL">> \o DumpsItems(Tail(items))

\* json.dumps(db_info, indent=2, ensure_ascii=False)
Dumps(db_info) ==
    IF db_info = << >> THEN <<"{", "}">>
    ELSE <<"{", "NL">> \o DumpsItems(db_info) \o <<"NL", "}">>

\* db_info.py lines 71-75: the header
HeaderText(db_info) ==
    <<"START", "NL">> \o Dumps(db_info) \o <<"NL", "END", "NL", "NL">>

\* the text a file object opened in text mode writes: on Windows a line
\* feed is written as carriage return and line feed
RECURSIVE Encode(_, _)
Encode(text, platform) ==
    IF text = << >> THEN << >>
    ELSE (IF Head(text) = "NL"
          THEN (IF platform = "windows" THEN <<"CRLF">> ELSE <<"LF">>)
          ELSE <<Head(text)>>) \o Encode(Tail(text), platform)

\* the text a file object opened in text mode reads: every line ending
\* becomes a line feed
RECURSIVE Decode(_)
Decode(bytes) ==
    IF bytes = << >> THEN << >>
    ELSE (IF Head(bytes) \in {"CRLF", "LF", "CR"} THEN <<"NL">>
          ELSE <<Head(bytes)>>) \o Decode(Tail(bytes))

\* core.py lines 266-268: gzip.open(backup_file, 'wb') over the bytes
Gzip(bytes) == [gzip |-> bytes]

\* gzip.open(file_path, 'rt'): the bytes of the member
Gunzip(member) == member.gzip

\* f.read(size): the first size characters; a lexeme that does not fit as
\* a whole is cut
RECURSIVE ReadChars(_, _)
ReadChars(text, size) ==
    IF text = << >> \/ size = 0 THEN << >>
    ELSE IF LexLen(Head(text)) <= size
         THEN <<Head(text)>> \o ReadChars(Tail(text), size - LexLen(Head(text)))
         ELSE <<"CUT">>

\* the least index from i on at which the pattern of two lexemes begins,
\* 0 when there is none
RECURSIVE Find(_, _, _, _)
Find(text, i, a, b) ==
    IF i + 1 > Len(text) THEN 0
    ELSE IF text[i] = a /\ text[i + 1] = b THEN i
    ELSE Find(text, i + 1, a, b)

\* re.search(r'/\* START DATABASE PARAMETERS\n(.*?)\nEND DATABASE
\* PARAMETERS \*/', content, re.DOTALL): whether there is a match, and
\* its group 1
SearchHeader(content) ==
    LET i == Find(content, 1, "START", "NL")
        j == IF i = 0 THEN 0 ELSE Find(content, i + 2, "NL", "END")
    IN  IF i = 0 \/ j = 0 THEN [found |-> FALSE, group |-> << >>]
        ELSE [found |-> TRUE, group |-> SubSeq(content, i + 2, j - 1)]

\* the index of the quote that closes the string which begins at i
RECURSIVE StringEnd(_, _)
StringEnd(text, i) ==
    IF i > Len(text) THEN 0
    ELSE IF text[i] = "QUOTE" THEN i
    ELSE IF text[i] = "BACKSLASH" THEN StringEnd(text, i + 2)
    ELSE StringEnd(text, i + 1)

\* the string of an escaped text
RECURSIVE Unescape(_)
Unescape(s) ==
    IF s = << >> THEN << >>
    ELSE IF Head(s) = "BACKSLASH" /\ Len(s) >= 2
         THEN <<(IF s[2] = "n" THEN "NL" ELSE s[2])>>
                  \o Unescape(Tail(Tail(s)))
         ELSE <<Head(s)>> \o Unescape(Tail(s))

\* the index of the first lexeme from i on that is not white space
RECURSIVE SkipSpace(_, _)
SkipSpace(text, i) ==
    IF i <= Len(text) /\ text[i] \in {"NL", "INDENT"}
    THEN SkipSpace(text, i + 1)
    ELSE i

\* the result of json.loads: the items of the object, or the error raised
Loaded(items) == [ok |-> TRUE, items |-> items]
LoadsError == [ok |-> FALSE, items |-> << >>]

\* json.loads from the item that begins at i of an object
RECURSIVE LoadsItems(_, _)
LoadsItems(text, i) ==
    LET k  == SkipSpace(text, i)
        ke == IF k <= Len(text) /\ text[k] = "QUOTE"
              THEN StringEnd(text, k + 1) ELSE 0
        ve == IF ke # 0 /\ ke + 2 <= Len(text)
                 /\ text[ke + 1] = "COLON" /\ text[ke + 2] = "QUOTE"
              THEN StringEnd(text, ke + 3) ELSE 0
        n  == IF ve = 0 THEN 0 ELSE SkipSpace(text, ve + 1)
        item == [ key   |-> Unescape(SubSeq(text, k + 1, ke - 1)),
                  value |-> Unescape(SubSeq(text, ke + 3, ve - 1)) ]
    IN  IF ve = 0 \/ n > Len(text) THEN LoadsError
        ELSE IF text[n] = "}" /\ n = Len(text) THEN Loaded(<<item>>)
        ELSE IF text[n] = "COMMA"
             THEN LET rest == LoadsItems(text, n + 1)
                  IN  IF rest.ok THEN Loaded(<<item>> \o rest.items)
                      ELSE LoadsError
        ELSE LoadsError

\* json.loads of the text of an object of strings
Loads(text) ==
    IF text = << >> \/ Head(text) # "{" THEN LoadsError
    ELSE IF SkipSpace(text, 2) = Len(text) /\ text[Len(text)] = "}"
         THEN Loaded(<< >>)
    ELSE LoadsItems(text, 2)

\* db_info.py lines 78-96: read_db_info_header on the text of the file;
\* {} when there is no match and when json.loads raises
ReadDbInfoHeader(text) ==
    LET match == SearchHeader(ReadChars(text, READ_SIZE))
    IN  IF ~match.found THEN << >>
        ELSE IF ~Loads(match.group).ok THEN << >>
        ELSE Loads(match.group).items

\* the values of the server variables of the model: a plain one, the empty
\* one, one with a quote and a backslash, one with a line feed and the text
\* of the end marker, and a long one
HeaderValues ==
    { <<"8.0">>, << >>, <<"QUOTE", "BACKSLASH">>, <<"NL", "END">>,
      <<"LONG">> }

\* db_info as get_db_variables returns it: no variable, one or two
DbInfos ==
    {<< >>}
    \cup {<<[key |-> <<"version">>, value |-> v]>> : v \in HeaderValues}
    \cup {<<[key |-> <<"version">>, value |-> v],
            [key |-> <<"sql_mode">>, value |-> w]>> :
              v \in HeaderValues, w \in HeaderValues}

\* what a call of read_db_info_header returned, and the value of the model
\* before the call
WasRead(db_info) == [done |-> TRUE, db_info |-> db_info]
NotRead == [done |-> FALSE, db_info |-> << >>]

\* the raw dump before the header step; the artifact is not yet written
HeaderInit ==
    /\ RunInit
    /\ cfg.ssh_enabled
    /\ pool = NoPool
    /\ status_store = NoStore
    /\ backup_dir = NoDir
    /\ \E db_info \in DbInfos, platform \in {"posix", "windows"} :
         header_file = [ pc |-> "dumped", db_info |-> db_info,
                         platform |-> platform,
                         temp_file |-> Encode(<<"SQL">>, platform),
                         backup_file |-> Gzip(<< >>),
                         read_plain |-> NotRead, read_gz |-> NotRead ]

\* core.py lines 243-254: the header and the dump are written to a new
\* file that replaces the dump, when there are variables to write
WriteHeader ==
    /\ header_file.pc = "dumped"
    /\ header_file' =
           [header_file EXCEPT
              !.pc = "headed",
              !.temp_file =
                  IF header_file.db_info # << >>
                  THEN Encode(HeaderText(header_file.db_info)
                                  \o Decode(header_file.temp_file),
                              header_file.platform)
                  ELSE @]
    /\ UNCHANGED << run_vars, pool, status_store, backup_dir >>

\* read_db_info_header on the plain file
ReadPlain ==
    /\ header_file.pc = "headed"
    /\ ~header_file.read_plain.done
    /\ header_file' =
           [header_file EXCEPT
              !.read_plain =
                  WasRead(ReadDbInfoHeader(Decode(header_file.temp_file)))]
    /\ UNCHANGED << run_vars, pool, status_store, backup_dir >>

\* core.py lines 265-269: the artifact is the compressed dump
CompressDump ==
    /\ header_file.pc = "headed"
    /\ header_file' = [header_file EXCEPT
                         !.pc = "compressed",
                         !.backup_file = Gzip(header_file.temp_file)]
    /\ UNCHANGED << run_vars, pool, status_store, backup_dir >>

\* read_db_info_header on the artifact
ReadGz ==
    /\ header_file.pc = "compressed"
    /\ ~header_file.read_gz.done
    /\ header_file' =
           [header_file EXCEPT
              !.read_gz =
                  WasRead(ReadDbInfoHeader(
                              Decode(Gunzip(header_file.backup_file))))]
    /\ UNCHANGED << run_vars, pool, status_store, backup_dir >>

HeaderNext ==
    \/ WriteHeader
    \/ ReadPlain
    \/ CompressDump
    \/ ReadGz

HeaderSpec == HeaderInit /\ [][HeaderNext]_vars

(***************************************************************************)
(* The dump command alone (core.py lines 69-113 and 139-218): the command  *)
(* is built for every server version and every kind of credentials, and    *)
(* the loop runs it and rewrites it.                                       *)
(***************************************************************************)
\* the versions a server answers: the zero triple, an old server, and the
\* versions on both sides of (8, 0, 0) and of (8, 0, 13)
Versions ==
    { <<0, 0, 0>>, <<5, 7, 44>>, <<7, 99, 99>>, <<8, 0, 0>>, <<8, 0, 12>>,
      <<8, 0, 13>>, <<8, 1, 0>>, <<10, 5, 8>> }

\* config.database.password: any text, also one in which the name of an
\* option occurs
Passwords == { <<"secret">>, <<"p", "--routines">> }

\* config.database.defaults_file: none, or a path
DefaultsFiles == { << >>, <<"my.cnf">> }

CmdConfigs ==
    [ server_version : Versions, defaults_file : DefaultsFiles,
      password : Passwords, database_names : { << >> },
      ssh_enabled : {FALSE} ]

\* the run at line 69, after the version probe answered or failed
CmdInit ==
    /\ cfg \in CmdConfigs
    /\ pc = "build"
    /\ \E ok \in BOOLEAN :
         server_version = RemoteVersion(ok, cfg.server_version)
    /\ pre_i = 1
    /\ cmd = << >>
    /\ skipped_tables = << >>
    /\ retry_errors = << >>
    /\ backup_success = FALSE
    /\ used_force = FALSE
    /\ force_attempts = 0
    /\ retry_count = 0
    /\ returncode = 0
    /\ stderr = << >>
    /\ status = NoRecord
    /\ temp_file = "absent"
    /\ backup_file = "absent"
    /\ result = "unset"
    /\ attempts = << >>
    /\ exec_parity = 0
    /\ ssh_client = "None"
    /\ probes = << >>
    /\ closes = 0
    /\ mail = "none"
    /\ pool = NoPool
    /\ AuxIdle

\* one more dump process of the loop, while the model follows the run
RunCommand == Len(attempts) < MaxRuns /\ LoopIteration(FALSE)

CmdNext == Build \/ RunCommand

CmdSpec == CmdInit /\ [][CmdNext]_vars

(***************************************************************************)
(* Properties of the execution loop.                                       *)
(***************************************************************************)
Last(seq) == seq[Len(seq)]

\* the run left through the except clause, or the error left the function
Aborted ==
    \/ result = "raised"
    \/ pc \in {"finally", "done"} /\ status.message.kind = "exception"

\* the run has reached the retry loop and no call of it has raised
LoopEntered ==
    /\ pc \notin {"start", "tunnel", "probe", "build", "preflight"}
    /\ ~Aborted

\* the run is past the retry loop
LoopLeft == pc \in {"final", "finally", "done"}

\* C1: on every sequence of dump outcomes the loop eventually leaves the
\* retry loop, in SUCCEEDED or in FAILED (the set of table names the
\* outcomes can report is finite).
C1_LoopTerminates == <>LoopLeft

\* C2: the COMPATIBILITY_RETRY transition is taken at most once per run; a
\* later failure that again carries the marker goes on to force handling.
C2_CompatAtMostOnce == DecisionCount(attempts, "COMPATIBILITY_RETRY") <= 1

\* the force counters agree: 0..3, and positive exactly when force is used
ForceCountersOk ==
    /\ force_attempts \in 0 .. 3
    /\ (force_attempts > 0) <=> used_force

\* C3: forceAttempts stays within 0..3, is positive exactly when usedForce
\* holds, and usedForce, once true, stays true: the ladder is climbed once,
\* one rung at a time.
C3_ForceLadder ==
    [][ /\ ForceCountersOk
        /\ ForceCountersOk'
        /\ used_force => used_force'
        /\ force_attempts' \in {force_attempts, force_attempts + 1} ]_vars

\* C3 witness: a run that climbed the whole ladder and failed
C3_Witness ==
    /\ pc = "done"
    /\ used_force
    /\ force_attempts = 3
    /\ Last(attempts).decision = "FAILED"

\* the command carries the force flag
HasForce(c) == \E i \in DOMAIN c : c[i] = <<"--force">>

\* every attempt so far exited nonzero with an error text that matches
\* neither the table-missing nor the compatibility pattern
OnlyUnclassifiedFailures(h) ==
    \A i \in DOMAIN h :
        /\ h[i].rc # 0
        /\ \A k \in DOMAIN h[i].err : h[i].err[k].kind \notin {"table", "lib"}

\* what such a run does, up to the text of its failure message: four dump
\* processes, the first without the force flag and the others with it, no
\* exit from the loop before the fourth, FAILED after it
FourAttemptsThenFailed ==
    /\ Len(attempts) <= 4
    /\ \A i \in DOMAIN attempts : HasForce(attempts[i].cmd) <=> (i > 1)
    /\ (pc = "loop") <=> (Len(attempts) < 4)
    /\ Len(attempts) = 4 =>
          /\ pc \in {"final", "finally", "done"}
          /\ ~backup_success
          /\ Last(attempts).decision = "FAILED"

\* C4 (as stated): in a run of unclassified failures the loop runs the dump
\* four times, first without and then three times with the force flag,
\* reaches FAILED, and the persisted failure message carries the error text
\* of the last attempt unchanged.
C4_Original ==
    (LoopEntered /\ OnlyUnclassifiedFailures(attempts)) =>
        /\ FourAttemptsThenFailed
        /\ pc = "done" =>
              /\ ~status.success /\ ~status.running
              /\ status.message.kind = "failed"
              /\ status.message.text = Last(attempts).err

\* C4 (amended): the same, the message carrying the last error text
\* unchanged when that text is not empty and the placeholder for an
\* unknown error when it is empty.
C4_ForceLadderExhausted ==
    (LoopEntered /\ OnlyUnclassifiedFailures(attempts)) =>
        /\ FourAttemptsThenFailed
        /\ pc = "done" =>
              /\ ~status.success /\ ~status.running
              /\ status.message.kind = "failed"
              /\ status.message.text =
                    IF Last(attempts).err = << >>
                    THEN <<UNKNOWN_ERROR>>
                    ELSE Last(attempts).err

\* C4 witness: four unclassified failures, the last with a text that ends
\* in a newline, and the failed record persisted
C4_Witness ==
    /\ pc = "done"
    /\ Len(attempts) = 4
    /\ OnlyUnclassifiedFailures(attempts)
    /\ Last(attempts).err = <<TEXT, NL>>
    /\ status.message.text = <<TEXT, NL>>

\* the step runs a dump process
Attempted == Len(attempts') = Len(attempts) + 1

\* the error stream names at least one table
NamesTable(err) == \E k \in DOMAIN err : err[k].kind = "table"

\* the first table an error stream names
FirstNamed(err) ==
    err[CHOOSE k \in DOMAIN err :
            /\ err[k].kind = "table"
            /\ \A j \in 1 .. (k - 1) : err[j].kind # "table"].name

\* the failed attempt names, first, a table that the skip set does not hold
ReportsNewTable(a, skipped) ==
    /\ a.rc # 0
    /\ NamesTable(a.err)
    /\ ~InList(Lower(FirstNamed(a.err)), skipped)

\* the --ignore-table arguments of a command
IgnoreArgs(c) == {c[i] : i \in {k \in DOMAIN c : Head(c[k]) = "--ignore-table="}}

Occurrences(c, arg) == Cardinality({i \in DOMAIN c : c[i] = arg})

\* C5: a failed attempt whose error stream names a table not yet in the
\* skip set and also carries the compatibility marker takes the
\* table-missing retry only: the command gains the ignore flag and keeps
\* everything else (the routine/trigger/event flags stay), usedForce and
\* forceAttempts are untouched.
C5_TableBeforeCompat ==
    [][ ( /\ Attempted
          /\ ReportsNewTable(Last(attempts'), skipped_tables)
          /\ HasLibrariesMarker(Last(attempts').err) )
        => /\ Last(attempts').decision = "TABLE_MISSING_RETRY"
           /\ pc' = "loop"
           /\ cmd' = Append(cmd, <<"--ignore-table=">>
                                   \o Lower(FirstNamed(Last(attempts').err)))
           /\ used_force' = used_force
           /\ force_attempts' = force_attempts ]_vars

\* C5 witness: the table-missing retry was taken on a stream that carries
\* the marker, and the command still has its routine/trigger/event flags
C5_Witness ==
    /\ pc = "loop"
    /\ Len(attempts) = 1
    /\ attempts[1].decision = "TABLE_MISSING_RETRY"
    /\ HasLibrariesMarker(attempts[1].err)
    /\ \E i \in DOMAIN cmd : cmd[i] = <<"--routines">>
    /\ \E i \in DOMAIN cmd : cmd[i] = <<"--ignore-table=", "db", ".", "users">>

NoDuplicates(seq) ==
    \A i, j \in DOMAIN seq : i # j => Lower(seq[i]) # Lower(seq[j])

AllLowercase(seq) ==
    \A i \in DOMAIN seq :
        \A k \in DOMAIN seq[i] :
            seq[i][k] \notin {"DB", "Orders", "ORDERS", "Users", "X"}

\* C6: through pre-flight and the retry loop the skip set only grows (what
\* it held stays, in place), every entry is lowercase, and no table is in
\* it twice, also when it is reported again in another letter case.
C6_SkipSetGrows ==
    [][ /\ Len(skipped_tables') >= Len(skipped_tables)
        /\ SubSeq(skipped_tables', 1, Len(skipped_tables)) = skipped_tables
        /\ AllLowercase(skipped_tables')
        /\ NoDuplicates(skipped_tables') ]_vars

\* C6 witness: pre-flight skipped db.orders (listed as Orders and orders),
\* the loop skipped db.users, and DB.Users was reported again afterwards
C6_Witness ==
    /\ skipped_tables = << <<"db", ".", "orders">>, <<"db", ".", "x", "--events">>,
                           <<"db", ".", "users">> >>
    /\ \E i \in DOMAIN attempts :
          /\ attempts[i].decision # "TABLE_MISSING_RETRY"
          /\ attempts[i].rc # 0
          /\ NamesTable(attempts[i].err)
          /\ FirstNamed(attempts[i].err) = <<"DB", ".", "Users">>

\* C7: an --ignore-table flag that an executed command carries is in every
\* later executed command of the run exactly once.
C7_IgnoreFlagsKept ==
    \A i, j \in DOMAIN attempts :
        i <= j =>
            \A arg \in IgnoreArgs(attempts[i].cmd) :
                Occurrences(attempts[j].cmd, arg) = 1

\* the tables (lowercase) on which the loop took the table-missing retry
RetriedTables ==
    { Lower(FirstNamed(attempts[i].err)) :
        i \in {k \in DOMAIN attempts :
                 attempts[k].decision = "TABLE_MISSING_RETRY"} }

\* the finisher has persisted its terminal record of a successful run
FinisherPersisted == pc = "report"

\* a validated, non-empty artifact leads to the success record
ValidArtifactPersists ==
    (pc = "validate" /\ backup_file = "nonempty" /\ pc' # pc)
        => (pc' = "report" /\ status'.success /\ ~status'.running)

\* the success record is partial and lists every table the loop retried on
PartialSuccessRecorded ==
    (FinisherPersisted /\ RetriedTables # {}) =>
        /\ status.success
        /\ ~status.running
        /\ status.message.kind = "success"
        /\ status.message.type = "partial"
        /\ \A t \in RetriedTables :
              /\ InList(t, status.skipped_tables)
              /\ InList(t, status.message.skipped)

\* C8 (as stated): after a table-missing retry on table T, a later attempt
\* that exits zero makes the terminal status a success that lists T.
C8_Original ==
    (pc = "done" /\ RetriedTables # {} /\ Last(attempts).rc = 0) =>
        /\ status.success
        /\ \A t \in RetriedTables : InList(t, status.skipped_tables)

\* C8 (amended): a failed attempt whose error stream names (first) a table
\* T outside the skip set adds lowercase T to the skip set, appends
\* --ignore-table=<lowercase T> to the command, records one retry-error
\* entry and retries; if a later attempt exits zero and the finisher
\* compresses the dump into a non-empty artifact, the terminal record it
\* persists is a success classified partially successful whose
\* skipped-table list contains lowercase T.
C8_TableMissingRetry ==
    [][ /\ ( Attempted /\ ReportsNewTable(Last(attempts'), skipped_tables) )
           => /\ skipped_tables' =
                    Append(skipped_tables,
                           Lower(FirstNamed(Last(attempts').err)))
              /\ cmd' = Append(cmd, <<"--ignore-table=">>
                                   \o Lower(FirstNamed(Last(attempts').err)))
              /\ Len(retry_errors') = Len(retry_errors) + 1
              /\ SubSeq(retry_errors', 1, Len(retry_errors)) = retry_errors
              /\ pc' = "loop"
        /\ ValidArtifactPersists
        /\ PartialSuccessRecorded' ]_vars

\* C8 witness: the scenario of the specification: db.users reported
\* missing on the first attempt, the second attempt exits zero, the
\* record is a partial success listing db.users
C8_Witness ==
    /\ FinisherPersisted
    /\ Len(attempts) = 2
    /\ attempts[1].decision = "TABLE_MISSING_RETRY"
    /\ attempts[2].rc = 0
    /\ attempts[2].cmd[Len(attempts[2].cmd)] = <<"--ignore-table=", "db", ".", "users">>
    /\ status.skipped_tables = << <<"db", ".", "users">> >>
    /\ status.message.type = "partial"

\* C9: a failed attempt adds at most one table to the skip set, and only
\* the first table its error stream names counts: when that one is already
\* in the skip set nothing is added (whatever else the stream names) and
\* the pass goes on to the compatibility / force classification.
C9_FirstMatchOnly ==
    [][ Attempted =>
        /\ Len(skipped_tables') <= Len(skipped_tables) + 1
        /\ skipped_tables' # skipped_tables =>
              /\ Last(attempts').rc # 0
              /\ NamesTable(Last(attempts').err)
              /\ skipped_tables' =
                    Append(skipped_tables,
                           Lower(FirstNamed(Last(attempts').err)))
        /\ ( /\ Last(attempts').rc # 0
             /\ NamesTable(Last(attempts').err)
             /\ InList(Lower(FirstNamed(Last(attempts').err)), skipped_tables) )
           => /\ skipped_tables' = skipped_tables
              /\ IgnoreArgs(cmd') \subseteq IgnoreArgs(cmd)
              /\ Last(attempts').decision \in
                    {"COMPATIBILITY_RETRY", "FORCE_RETRY", "FORCE_AGAIN",
                     "FAILED"} ]_vars

\* C9 witness: db.users is skipped, then a stream names DB.Users first and
\* the new db.orders after it: nothing is added, force handling follows
C9_Witness ==
    /\ pc = "loop"
    /\ skipped_tables = << <<"db", ".", "users">> >>
    /\ Len(attempts) = 2
    /\ attempts[2].err =
          << TableSeg(<<"DB", ".", "Users">>), TableSeg(<<"db", ".", "orders">>), NL >>
    /\ attempts[2].decision = "FORCE_RETRY"

\* the record of a first attempt that exits zero with nothing skipped
FullSuccessRecorded ==
    ( /\ FinisherPersisted
      /\ Len(attempts) = 1
      /\ attempts[1].rc = 0
      /\ skipped_tables = << >> ) =>
        /\ status.success
        /\ ~status.running
        /\ status.message.kind = "success"
        /\ status.message.type = "full"
        /\ status.skipped_tables = << >>

\* C10 (as stated): exit zero on the first attempt with an empty skip set
\* yields the terminal status success.
C10_Original ==
    ( /\ pc = "done"
      /\ Len(attempts) = 1
      /\ attempts[1].rc = 0
      /\ skipped_tables = << >> ) =>
        status.success

\* C10 (amended): an attempt that exits zero ends the loop in SUCCEEDED
\* whatever its error stream holds: no dump process runs after it, and the
\* iteration changes neither the command, the skip set nor the force
\* counters.  Exit zero on the first attempt with an empty skip set yields a
\* success record marked fully successful, provided the finisher compresses
\* the dump into a non-empty artifact.
C10_ExitZeroEndsLoop ==
    [][ /\ ( Attempted /\ Last(attempts').rc = 0 )
           => /\ Last(attempts').decision = "SUCCEEDED"
              /\ backup_success'
              /\ pc' = "final"
              /\ cmd' = cmd
              /\ skipped_tables' = skipped_tables
              /\ used_force' = used_force
              /\ force_attempts' = force_attempts
        /\ ( attempts # << >> /\ Last(attempts).rc = 0 )
           => /\ attempts' = attempts
              /\ exec_parity' = exec_parity
              /\ pc' # "loop"
        /\ ValidArtifactPersists
        /\ FullSuccessRecorded' ]_vars

\* C10 witness: the first attempt exits zero with a non-empty error stream,
\* nothing is skipped, and the record is a full success
C10_Witness ==
    /\ FinisherPersisted
    /\ Len(attempts) = 1
    /\ attempts[1].rc = 0
    /\ HasLibrariesMarker(attempts[1].err)
    /\ skipped_tables = << >>
    /\ status.success
    /\ status.message.type = "full"

(***************************************************************************)
(* Properties of the retry log, the finisher and the exits of a run.       *)
(***************************************************************************)
\* seq is the beginning of longer
IsPrefix(seq, longer) ==
    /\ Len(seq) <= Len(longer)
    /\ SubSeq(longer, 1, Len(seq)) = seq

\* the entries the log held when the loop began
PreflightEntries(log) == Cardinality({i \in DOMAIN log : log[i].kind = "preflight"})

\* the dump processes of the history that exited nonzero
FailedAttempts(h) == Cardinality({i \in DOMAIN h : h[i].rc # 0})

\* C11 (as stated): every iteration of the loop appends a record to the
\* retry-error log, so that after k iterations the log is k entries longer
\* than it was before the loop.
C11_Original ==
    Len(retry_errors) = PreflightEntries(retry_errors) + Len(attempts)

\* C11 (amended): the retry-error log is append-only within a run, no entry
\* is removed or altered; every iteration whose dump process exits nonzero
\* appends exactly one record (the stripped error text), an iteration whose
\* process exits zero appends none, so the log is as much longer than
\* before the loop as there were failed iterations.
C11_LogAppendOnly ==
    [][ /\ IsPrefix(retry_errors, retry_errors')
        /\ ( Attempted /\ Last(attempts').rc # 0 )
           => /\ Len(retry_errors') = Len(retry_errors) + 1
              /\ Last(retry_errors').text = Strip(Last(attempts').err)
        /\ ( Attempted /\ Last(attempts').rc = 0 )
           => retry_errors' = retry_errors
        /\ Len(retry_errors') =
              PreflightEntries(retry_errors') + FailedAttempts(attempts') ]_vars

\* C11 witness: two pre-flight entries, two failed iterations and one that
\* exits zero: four entries
C11_Witness ==
    /\ pc = "final"
    /\ Len(attempts) = 3
    /\ attempts[3].rc = 0
    /\ PreflightEntries(retry_errors) = 2
    /\ Len(retry_errors) = 4

\* C12: a run that ends in success is classified partially successful
\* exactly when its skip set is non-empty and fully successful exactly when
\* it is empty, and the persisted message and the notification chosen from
\* the persisted record agree on it.
C12_SuccessClassified ==
    (pc = "done" /\ status.success) =>
        /\ (status.message.type = "partial") <=> (skipped_tables # << >>)
        /\ (status.message.type = "full") <=> (skipped_tables = << >>)
        /\ mail # "none" => mail = status.message.type

\* C13: when the dump process exits zero and the compressed artifact is
\* missing or empty, the terminal record has success = false and
\* running = false, and the run returns no artifact path; the success
\* record is persisted for a non-empty artifact only.
C13_InvalidArtifactDowngrades ==
    /\ ( /\ pc \in {"finally", "done"}
         /\ attempts # << >>
         /\ Last(attempts).rc = 0
         /\ backup_file \in {"absent", "empty"} )
       => /\ ~status.success
          /\ ~status.running
          /\ status.backup_file = "None"
          /\ result = "None"
    /\ pc = "report" => backup_file = "nonempty"
    /\ status.success => backup_file = "nonempty"

\* C13 witness: exit zero, an artifact of size zero, the failed record
C13_Witness ==
    /\ pc = "done"
    /\ attempts # << >>
    /\ Last(attempts).rc = 0
    /\ backup_file = "empty"
    /\ status.message.kind = "empty_artifact"
    /\ ~status.success
    /\ result = "None"

\* the loop of the run ended in FAILED
EndedInFailed == attempts # << >> /\ Last(attempts).decision = "FAILED"

\* the finisher steps were not taken and the failed record is persisted
FailedRecordOnly ==
    /\ pc \in {"final", "finally", "done"}
    /\ backup_file = "absent"
    /\ temp_file # "headed"
    /\ pc # "final" =>
          /\ ~status.success
          /\ ~status.running
          /\ status.message.kind = "failed"
          /\ status.retry_errors = retry_errors
          /\ result = "None"

C15_NeverRaises ==
    pc = "done" =>
        /\ result \in {"None", "backup_file"}
        /\ status.present
        /\ ~status.running

\* a tunnel was opened for the run
TunnelWasOpened == \E i \in DOMAIN probes : probes[i].kind = "tunnel" /\ probes[i].ok

\* opening the tunnel failed
TunnelFailed == \E i \in DOMAIN probes : probes[i].kind = "tunnel" /\ ~probes[i].ok

\* C16: a tunnel opened for a run is closed exactly once on every way out
\* of the run, after the last dump process and after the terminal record
\* is persisted, and no dump or probe of the run follows the close.
C16_TunnelClosedOnce ==
    [][ /\ closes' \in {closes, closes + 1}
        /\ closes' <= 1
        /\ closes' = closes + 1 =>
              /\ ssh_client = "open" /\ ssh_client' = "closed"
              /\ status.present /\ ~status.running
              /\ status' = status
              /\ pc' = "done"
        /\ ssh_client = "closed" =>
              /\ ssh_client' = "closed"
              /\ attempts' = attempts
              /\ exec_parity' = exec_parity
              /\ probes' = probes
              /\ status' = status
        /\ pc' = "done" =>
              /\ ssh_client' # "open"
              /\ TunnelWasOpened' => (ssh_client' = "closed" /\ closes' = 1) ]_vars

\* C16 witness: a run through the tunnel that ran dumps, left through the
\* except clause and closed the tunnel
C16_Witness ==
    /\ pc = "done"
    /\ TunnelWasOpened
    /\ closes = 1
    /\ ssh_client = "closed"
    /\ attempts # << >>
    /\ status.message.kind = "exception"

\* C17: when the tunnel is enabled and its host is unreachable or opening
\* it returns no handle, the run aborts: no version probe, pre-flight query
\* or dump process is executed, the record is failed with running = false,
\* and none is returned.
C17_TunnelFailureAborts ==
    TunnelFailed =>
        /\ Len(probes) = 1
        /\ attempts = << >>
        /\ exec_parity = 0
        /\ cmd = << >>
        /\ ssh_client = "None"
        /\ pc \in {"finally", "done"}
        /\ ~status.success
        /\ ~status.running
        /\ result = "None"

\* C17 witness: the tunnel could not be opened and the run is over
C17_Witness ==
    /\ pc = "done"
    /\ cfg.ssh_enabled
    /\ TunnelFailed
    /\ status.message.kind = "exception"
    /\ closes = 0

\* the version query of the run failed
ProbeFailed == \E i \in DOMAIN probes : probes[i].kind = "version" /\ ~probes[i].ok

\* C18: if the version probe fails the run aborts at once: no dump process
\* is executed, no retry is made, the status is recorded as failed.
C18_ProbeFailureAborts ==
    ProbeFailed =>
        /\ attempts = << >>
        /\ pc = "done" => (~status.success /\ ~status.running)

(***************************************************************************)
(* Properties of the worker pool.                                          *)
(***************************************************************************)
\* C19: with n configurations at most min(4, n) runs execute at a time, and
\* a configuration has at most one dump process in flight: the run decides
\* on the next attempt only when the process has exited.
C19_BoundedConcurrency ==
    /\ Cardinality(Running(pool)) <= 4
    /\ Cardinality(Running(pool)) <= pool.n
    /\ \A c \in PoolConfigs(pool) :
          /\ pool.in_flight[c] \in {0, 1}
          /\ (pool.in_flight[c] = 1) <=> (pool.task[c] = "dump")

\* C19 witness: five configurations, four of them running, one waiting for
\* a worker, a dump process in flight in three
C19_Witness ==
    /\ pool.n = 5
    /\ Cardinality(Running(pool)) = 4
    /\ \E c \in PoolConfigs(pool) : pool.task[c] = "queued"
    /\ Cardinality({c \in PoolConfigs(pool) : pool.in_flight[c] = 1}) = 3
    /\ pool.retries > 0

\* every configuration is submitted once and started at most once, and a
\* finished task holds a return value of process_config
PoolAccounts ==
    /\ \A c \in PoolConfigs(pool) :
          /\ pool.submitted[c] = IF pool.task[c] = "unsubmitted" THEN 0 ELSE 1
          /\ pool.started[c] =
                IF pool.task[c] \in {"unsubmitted", "queued"} THEN 0 ELSE 1
          /\ (pool.task[c] = "returned") <=> (pool.outcome[c] \in {"file", "None"})
          /\ pool.outcome[c] \in {"none", "file", "None"}
    /\ pool.main = "done" =>
          \A c \in PoolConfigs(pool) : pool.task[c] = "returned"

\* C20: a failure or an exception in the run of one configuration does not
\* take the pool down: every configuration is submitted and processed
\* exactly once, and (every run terminating) every configuration reaches
\* its terminal outcome and main ends.
C20_PoolSurvives == []PoolAccounts /\ <>(pool.main = "done")

\* C20 witness: five configurations all processed, one of them ended
\* without an artifact, the others with one
C20_Witness ==
    /\ pool.n = 5
    /\ pool.main = "done"
    /\ pool.outcome[2] = "None"
    /\ \A c \in PoolConfigs(pool) : c # 2 => pool.outcome[c] = "file"

(***************************************************************************)
(* C21 - C24: the status files and the notifications.                      *)
(***************************************************************************)
\* C21: the read-modify-write of a status record is atomic: between the
\* load of a record and the save that writes it back no other write to the
\* record of that configuration interleaves, so a writer that is about to
\* save a loaded record back finds the stored record as it loaded it
C21_ReadModifyWriteAtomic ==
    \A w \in Writers :
        status_store.pc[w] = "save_back"
        => status_store.file[WriterConfig(w)] = status_store.loaded[w]

\* every field of the record is the argument of that name
FieldsFrom(rec, a) ==
    /\ rec.present
    /\ rec.success = a.success
    /\ rec.message = a.message
    /\ rec.backup_file = a.backup_file
    /\ rec.skipped_tables = a.skipped_tables
    /\ rec.retry_errors = a.retry_errors
    /\ rec.running = a.running
    /\ rec.start_time = a.start_time
    /\ rec.end_time = a.end_time
    /\ rec.mail_sent_time = a.mail_sent_time

\* C22: there is one record per configuration name; a step that changes the
\* record of a configuration is a save of a writer of that configuration,
\* every field of the new record is an argument of that save (nothing of
\* the record before it survives, the time of the save is new), and the
\* record of every other configuration stays as it is
C22_SaveReplacesOneRecord ==
    [][ \A n \in StoreNames :
          status_store'.file[n] # status_store.file[n]
          => /\ \E w \in Writers :
                  /\ WriterConfig(w) = n
                  /\ status_store.lock[WriterProcess(w)] = w
                  /\ FieldsFrom(status_store'.file[n], status_store.args[w])
             /\ status_store'.file[n].last_run > status_store.file[n].last_run
             /\ \A m \in StoreNames \ {n} :
                  status_store'.file[m] = status_store.file[m]
      ]_vars

\* C22, witness: the start record of a run has replaced a record that
\* carried a notification time, an artifact and an end time, and the other
\* configuration has a record of its own
C22_Witness ==
    /\ status_store.pc # << >>
    /\ status_store.loaded["check"] = PreviousRecord("previous_mail")
    /\ status_store.file["app"].running
    /\ status_store.file["app"].last_run = 2
    /\ status_store.file["app"].mail_sent_time = "None"
    /\ status_store.file["app"].end_time = "None"
    /\ status_store.file["crm"].present

\* the record of a run that has ended
Terminal(rec) == rec.present /\ ~rec.running

\* C23: a record persisted with running = false is immutable until a new
\* run of the configuration starts: the only step that changes it writes
\* the start record of a run
C23_TerminalRecordImmutable ==
    [][ \A n \in StoreNames :
          (Terminal(status_store.file[n])
           /\ status_store'.file[n] # status_store.file[n])
          => status_store'.file[n].running
      ]_vars

\* C24: a failure of the notification is never propagated: every call of a
\* sender returns normally, and no run enters its except clause because of
\* one
C24_NotificationNeverPropagates ==
    \A w \in Writers :
        /\ status_store.sent[w] # "raised"
        /\ status_store.pc[w] # "save_except"

(***************************************************************************)
(* C25 - C26: the retention cleanup.                                       *)
(***************************************************************************)
\* C25: a cleanup run of a configuration removes artifacts of that
\* configuration only, whatever the names of the other configurations of
\* the directory
C25_DeletesOwnArtifactsOnly ==
    \A i \in DOMAIN backup_dir.runs :
        \A f \in backup_dir.runs[i].removed :
            f.owner = backup_dir.runs[i].config

\* the files of the pattern of the configuration that are older than the
\* retention date
MatchingOlder(files, config_name) ==
    {f \in files :
        /\ Matches(f.name, config_name)
        /\ f.ctime < CleanupClock.now - CleanupClock.days_to_keep}

\* C26: a cleanup run on a directory in which no matching artifact is
\* older than the retention date removes nothing and returns the empty
\* list; and a run that follows a run of the same configuration which
\* removed every such artifact removes nothing
C26_CleanupIdempotent ==
    \A i \in DOMAIN backup_dir.runs :
        LET run == backup_dir.runs[i]
        IN  /\ MatchingOlder(run.before, run.config) = {}
               => run.removed = {} /\ run.returned = {}
            /\ (/\ i > 1
                /\ backup_dir.runs[i - 1].config = run.config
                /\ backup_dir.runs[i - 1].failed = {}
                /\ MatchingOlder(backup_dir.runs[i - 1].before, run.config)
                       \subseteq backup_dir.runs[i - 1].removed)
               => run.removed = {}

\* C26, witness: a first run has removed the expired artifacts, all its
\* removals succeeded, and the run after it found files of the pattern
\* and removed none
C26_Witness ==
    /\ Len(backup_dir.runs) = 2
    /\ backup_dir.runs[1].config = backup_dir.runs[2].config
    /\ backup_dir.runs[1].removed # {}
    /\ backup_dir.runs[1].failed = {}
    /\ ~backup_dir.runs[1].cut
    /\ \E f \in backup_dir.runs[2].before :
         Matches(f.name, backup_dir.runs[2].config)
    /\ backup_dir.runs[2].removed = {}
    /\ backup_dir.runs[2].returned = {}

(***************************************************************************)
(* C27: the header of server settings.                                     *)
(***************************************************************************)
\* C27: read_db_info_header returns the mapping that was written in front
\* of the dump, from the plain file and from the compressed artifact, for
\* every length of the header and every value
C27_HeaderRoundTrip ==
    /\ header_file.read_plain.done
       => header_file.read_plain.db_info = header_file.db_info
    /\ header_file.read_gz.done
       => header_file.read_gz.db_info = header_file.db_info

(***************************************************************************)
(* C28 - C30: the header step and the pre-flight check of a run.           *)
(***************************************************************************)
\* C28: the header step is never fatal: whatever the variable query and
\* the writing of the header do, the step goes on to the compression,
\* leaves the status record, the result and the artifact alone, and leaves
\* the raw dump either with its original content or with the complete
\* header in front of it; a dump with its original content is compressed
\* and validated like a dump with a header
C28_HeaderNeverFatal ==
    [][ /\ (pc = "final" /\ backup_success)
           => /\ pc' = "compress"
              /\ temp_file' \in {"absent", "present", "headed"}
              /\ status' = status
              /\ result' = result
              /\ backup_file' = backup_file
        /\ (pc = "compress" /\ temp_file \in {"present", "headed"})
           => \/ pc' = "validate" /\ temp_file' = "absent"
              \/ pc' = "finally" /\ status'.message.type = "compress"
      ]_vars

\* C28, witness: the header step has ended without a header, the dump has
\* its original content and the run is at the compression, its record
\* still the start record
C28_Witness ==
    /\ pc = "compress"
    /\ temp_file = "present"
    /\ backup_success
    /\ status.running
    /\ result = "unset"

\* the entries of the pre-flight checks among the queries of the run
TableChecks == {i \in DOMAIN probes : probes[i].kind = "tables"}

\* C29: the pre-flight check is never fatal: a check that fails
\* contributes no table, leaves the skip set, the command and the log as
\* they are, and the run goes on to the next database or to the dump
C29_PreflightNeverFatal ==
    [][ pc = "preflight"
        => /\ pc' \in {"preflight", "loop"}
           /\ status' = status
           /\ result' = result
           /\ ~Last(probes').ok
              => /\ Last(probes').found = << >>
                 /\ skipped_tables' = skipped_tables
                 /\ cmd' = cmd
                 /\ retry_errors' = retry_errors
      ]_vars

\* C29, witness: the check of the database failed and the dump was run,
\* with the command as it was built
C29_Witness ==
    /\ \E i \in TableChecks : ~probes[i].ok
    /\ Len(attempts) = 1
    /\ IgnoreArgs(attempts[1].cmd) = {}
    /\ skipped_tables = << >>

\* C30: before the first dump of the run every table the pre-flight check
\* found is in the skip set in lowercase and in the command as an
\* ignore-table flag: the first command executed excludes all of them
C30_PreflightBeforeFirstDump ==
    \A i \in TableChecks :
        \A j \in DOMAIN probes[i].found :
            LET table_lower == Lower(probes[i].found[j])
            IN  /\ InList(table_lower, skipped_tables)
                /\ (pc = "loop" /\ attempts = << >>)
                   => InList(IgnoreArg(table_lower), cmd)
                /\ attempts # << >>
                   => InList(IgnoreArg(table_lower), attempts[1].cmd)

\* C30, witness: the check found tables and the first dump has run
C30_Witness ==
    /\ \E i \in TableChecks : Len(probes[i].found) = 3
    /\ Len(attempts) = 1
    /\ Len(skipped_tables) = 2


(***************************************************************************)
(* Properties of the dump command.                                         *)
(***************************************************************************)
\* the command has an argument that starts with the option opt
HasOption(c, opt) == \E i \in DOMAIN c : Head(c[i]) = opt

\* the command has the argument arg
HasArg(c, arg) == \E i \in DOMAIN c : c[i] = arg

\* a is lexicographically below b
LexBelow(a, b) ==
    \E k \in 1..3 : a[k] < b[k] /\ \A j \in 1..(k - 1) : a[j] = b[j]

\* the command is built and no dump process has run yet
InitiallyBuilt == pc = "loop" /\ attempts = << >>

\* C31: on every executed dump command, when a credentials file is
\* configured the command has the --defaults-file option and no --password
\* option, and otherwise it has the --password option and no
\* --defaults-file option; no retry changes this.
C31_CredentialsExclusive ==
    \A i \in DOMAIN attempts :
        IF cfg.defaults_file # << >>
        THEN /\ HasOption(attempts[i].cmd, "--defaults-file=")
             /\ ~HasOption(attempts[i].cmd, "--password=")
        ELSE /\ HasOption(attempts[i].cmd, "--password=")
             /\ ~HasOption(attempts[i].cmd, "--defaults-file=")

\* C32: for every server version triple, the built command has the option
\* that disables column statistics exactly when the triple is
\* lexicographically below (8, 0, 0); the zero triple of a failed probe is
\* such a triple.
C32_ColumnStatisticsBelow8 ==
    pc = "loop" =>
        (HasArg(cmd, <<"--column-statistics=0">>)
            <=> LexBelow(server_version, <<8, 0, 0>>))

\* the probe failed against a server of version 8 and the command built for
\* the zero triple has the option
C32_Witness ==
    /\ InitiallyBuilt
    /\ cfg.server_version = <<8, 0, 13>>
    /\ server_version = ZERO_VERSION
    /\ HasArg(cmd, <<"--column-statistics=0">>)

\* C33: for every server version triple, the initially built command has
\* the routines, triggers and events options exactly when the triple is
\* lexicographically at or above (8, 0, 13); for lower versions none of the
\* three is there, and an option that is not in a command of the run is in
\* no later command of it.
C33_ObjectOptionsFrom8013 ==
    /\ InitiallyBuilt =>
          \A f \in CompatFlags :
              HasArg(cmd, <<f>>) <=> ~LexBelow(server_version, <<8, 0, 13>>)
    /\ pc = "loop" /\ LexBelow(server_version, <<8, 0, 13>>) =>
          \A f \in CompatFlags :
              /\ ~HasArg(cmd, <<f>>)
              /\ \A i \in DOMAIN attempts : ~HasArg(attempts[i].cmd, <<f>>)
    /\ \A i, j \in DOMAIN attempts : \A f \in CompatFlags :
          i < j /\ HasArg(attempts[j].cmd, <<f>>)
              => HasArg(attempts[i].cmd, <<f>>)

\* the command built for 8.0.13 has the three options, and a later command
\* of the run has lost them
C33_Witness ==
    /\ server_version = <<8, 0, 13>>
    /\ Len(attempts) >= 2
    /\ \A f \in CompatFlags : HasArg(attempts[1].cmd, <<f>>)
    /\ \A f \in CompatFlags : ~HasArg(Last(attempts).cmd, <<f>>)

\* C35: the TABLE_MISSING_RETRY and COMPATIBILITY_RETRY transitions leave
\* used_force and force_attempts unchanged, so the retries caused by
\* missing tables take nothing from the force budget: a run takes one
\* table-missing retry for each distinct table its attempts reported first
\* and that was not skipped yet, however many forced attempts it has made.
C35_RetriesKeepForceBudget ==
    [][ /\ (Attempted /\ Last(attempts').decision
                            \in {"TABLE_MISSING_RETRY", "COMPATIBILITY_RETRY"})
            => /\ used_force' = used_force
               /\ force_attempts' = force_attempts
               /\ pc' = "loop"
        /\ DecisionCount(attempts', "TABLE_MISSING_RETRY")
               = Cardinality(RetriedTables') ]_vars

\* the loop has made its three forced attempts, then took a table-missing
\* retry and goes on
C35_Witness ==
    /\ pc = "loop"
    /\ attempts # << >>
    /\ Last(attempts).decision = "TABLE_MISSING_RETRY"
    /\ HasForce(Last(attempts).cmd)
    /\ force_attempts = max_force_retry

(***************************************************************************)
(* Properties of the notification time and of the record saved back.       *)
(***************************************************************************)
\* what the field sent holds when no notification went out
NotSent == {"none", "raised", "disabled", "failed"}

\* the writer is inside save_backup_status at the position at, and this
\* step writes the file
Writes(w, at) ==
    /\ status_store.lock[WriterProcess(w)] = w
    /\ status_store.pc[w] = at
    /\ status_store'.lock[WriterProcess(w)] = "free"

\* C34: mail_sent_time is written to the record of a configuration only
\* after a notification was sent: when notification is disabled or the
\* send fails, neither the run nor the status check sets it.
C34_StampOnlyAfterSend ==
    [][ \A w \in Writers :
          (Writes(w, "save_back")
             /\ status_store'.file[WriterConfig(w)].mail_sent_time = "now")
          => status_store.sent[w] \notin NotSent ]_vars

\* C36: the record saved back to stamp the notification time has the
\* success, message, artifact path, skipped tables, retry errors, start
\* time and end time of the record that was loaded.
C36_SaveBackKeepsRecord ==
    [][ \A w \in Writers :
          Writes(w, "save_back")
          => LET new == status_store'.file[WriterConfig(w)]
                 old == status_store.loaded[w]
             IN  /\ new.success = old.success
                 /\ new.message = old.message
                 /\ new.backup_file = old.backup_file
                 /\ new.skipped_tables = old.skipped_tables
                 /\ new.retry_errors = old.retry_errors
                 /\ new.start_time = old.start_time
                 /\ new.end_time = old.end_time ]_vars

\* C38: from the start record of a run to its terminal record the stored
\* record of the configuration has running = true, also when the status
\* check of the configuration loads and saves in between.
C38_RunningUntilTerminal ==
    status_store.pc["run"] \in {"body", "save_terminal"}
        => status_store.file["app"].running

\* C37: once a run has persisted a record with success = true, no later
\* step of the run persists success = false or makes
\* perform_backup_for_config return None.
C37_SuccessIsFinal ==
    [][ (status.present /\ status.success /\ ~status.running)
            => (status'.success /\ result' # "None") ]_vars

(***************************************************************************)
(* C39: when the retention cleanup runs.                                   *)
(***************************************************************************)
\* C39: the cleanup of a configuration runs only after the backup run of
\* that configuration returned an artifact path: a call of process_config
\* whose run ended in failure, and a status check, start no cleanup and
\* delete no file of the directory.
C39_CleanupOnlyAfterArtifact ==
    [][ (\/ backup_dir'.files # backup_dir.files
         \/ backup_dir'.runs # backup_dir.runs)
        => /\ backup_dir'.call.perform = "file"
           /\ backup_dir'.call.mode \in {"backup", "single"}
           /\ Last(backup_dir'.runs).config = backup_dir'.call.config ]_vars

\* a run of a configuration that has artifacts older than the retention
\* date ended in failure, and no cleanup has run on the directory
C39_Witness ==
    /\ backup_dir.call.mode = "backup"
    /\ backup_dir.call.perform \in {"None", "raised"}
    /\ backup_dir.runs = << >>
    /\ MatchingOlder(backup_dir.files, backup_dir.call.config) # {}

=============================================================================
